---- MODULE Spec2Model ----
(***************************************************************************)
(* Model of the notifyhub relay: the request handler, the library entry    *)
(* points, the Firebase notification service with its temporary apps, the  *)
(* credential validator and the cipher codec.                              *)
(*                                                                         *)
(* JavaScript runs one synchronous section at a time; sections of          *)
(* different requests interleave only at an await.  Every action below is  *)
(* one such section: it starts where a promise settles and runs to the     *)
(* next await (or to the end of the call).                                 *)
(*                                                                         *)
(* Text is a sequence of atoms.  An atom is one character, or a fixed      *)
(* piece of text that the code only ever compares or searches as a whole   *)
(* (a word of an error message, the PEM marker).                           *)
(***************************************************************************)
EXTENDS Integers, Sequences, FiniteSets, TLC

\* ------------------------------------------------------------------ bounds
\* Number of concurrent requests / library calls in one process.
MaxReq == 2

Reqs == 1..MaxReq

\* ------------------------------------------------------------- text helpers
\* String.prototype.includes, at the granularity of atoms.
Includes(s, atom) == \E i \in DOMAIN s : s[i] = atom

\* Array.prototype.join(', ') of a list of texts.
RECURSIVE Join(_)
Join(list) ==
    IF list = <<>> THEN <<>>
    ELSE IF Len(list) = 1 THEN list[1]
    ELSE list[1] \o <<", ">> \o Join(Tail(list))

\* Decimal digits of a natural number, as template literals print it.
DigitChar(d) == <<"0", "1", "2", "3", "4", "5", "6", "7", "8", "9">>[d + 1]

RECURSIVE Digits(_)
Digits(n) ==
    IF n < 10 THEN <<DigitChar(n)>>
    ELSE Append(Digits(n \div 10), DigitChar(n % 10))

\* ------------------------------------------------------------- JSON values
Undefined == [t |-> "undefined"]
Null      == [t |-> "null"]
Num(n)    == [t |-> "number", n |-> n]
Bool(b)   == [t |-> "boolean", b |-> b]
Str(s)    == [t |-> "string", s |-> s]
Arr(a)    == [t |-> "array", a |-> a]
Obj(f)    == [t |-> "object", f |-> f]
\* A long string given by its length: `len` characters, `pad` of them leading
\* or trailing white space, `body` what the trimmed text holds.
Text(len, pad, body) == [t |-> "text", len |-> len, pad |-> pad, body |-> body]

\* JavaScript truthiness (the `!x` and `x && ...` tests of the validators).
Truthy(v) ==
    CASE v.t = "undefined" -> FALSE
      [] v.t = "null"      -> FALSE
      [] v.t = "number"    -> v.n # 0
      [] v.t = "boolean"   -> v.b
      [] v.t = "string"    -> v.s # <<>>
      [] v.t = "text"      -> v.len # 0
      [] OTHER             -> TRUE

\* typeof v === 'string'
TypeofString(v) == v.t \in {"string", "text"}

\* v.length: strings and arrays have one, on anything else it is undefined
\* and every comparison with it is false (modelled as -1, see LengthOver).
HasLength(v) == v.t \in {"string", "text", "array"}
Length(v) ==
    CASE v.t = "string" -> Len(v.s)
      [] v.t = "text"   -> v.len
      [] v.t = "array"  -> Len(v.a)
      [] OTHER          -> -1
LengthOver(v, n)  == HasLength(v) /\ Length(v) > n
LengthUnder(v, n) == HasLength(v) /\ Length(v) < n

\* String.prototype.trim
RECURSIVE TrimLeft(_)
TrimLeft(s) == IF s # <<>> /\ s[1] = " " THEN TrimLeft(Tail(s)) ELSE s
RECURSIVE TrimRight(_)
TrimRight(s) ==
    IF s # <<>> /\ s[Len(s)] = " " THEN TrimRight(SubSeq(s, 1, Len(s) - 1)) ELSE s
Trim(v) ==
    IF v.t = "text" THEN Text(v.len - v.pad, 0, v.body)
    ELSE Str(TrimRight(TrimLeft(v.s)))

\* typeof v === 'object' (true of null, arrays and objects).
TypeofObject(v) == v.t \in {"null", "array", "object"}

\* Property read obj[field]: undefined on anything but an object holding it.
Field(v, name) ==
    IF v.t = "object" /\ name \in DOMAIN v.f THEN v.f[name] ELSE Undefined

\* String(v) as RegExp.prototype.test coerces its argument (an array prints
\* its elements joined by commas).
RECURSIVE ToText(_)
ToText(v) ==
    CASE v.t = "string"  -> v.s
      [] v.t = "number"  -> Digits(v.n)
      [] v.t = "boolean" -> IF v.b THEN <<"t","r","u","e">> ELSE <<"f","a","l","s","e">>
      [] v.t = "array"   -> IF v.a = <<>> THEN <<>>
                            ELSE IF Len(v.a) = 1 THEN ToText(v.a[1])
                            ELSE ToText(v.a[1]) \o <<",">> \o ToText(Arr(Tail(v.a)))
      [] v.t = "text"    -> <<v.body>>
      [] v.t = "object"  -> <<"[","o","b","j","e","c","t"," ","O","b","j","e","c","t","]">>
      [] OTHER           -> <<v.t>>

\* ------------------------------------------------- RequestValidator (part_001)
PemMarker == "BEGIN PRIVATE KEY"
ServiceAccountType == <<"service_account">>

\* Atoms matched by \s or @, the characters the e-mail pattern excludes
\* (the PEM marker holds blanks).
Excluded(c) == c \in {" ", "@", PemMarker}

\* /^[^\s@]+@[^\s@]+\.[^\s@]+$/.test(email)
IsValidEmail(v) ==
    LET s == ToText(v) IN
    \E i \in DOMAIN s :
        /\ s[i] = "@"
        /\ i > 1
        /\ \A k \in DOMAIN s : k # i => ~Excluded(s[k])
        /\ \E j \in DOMAIN s : j > i + 1 /\ j < Len(s) /\ s[j] = "."

ServiceAccountFields == <<"project_id", "private_key", "client_email", "type">>

MissingFieldError(field) == <<"Missing required service account field: ", field>>
InvalidTypeError  == <<"Invalid service account type">>
InvalidKeyError   == <<"Invalid private key format">>
InvalidEmailError == <<"Invalid client email format">>
NotObjectError    == <<"Service account must be a valid object">>

\* private_key.includes('BEGIN PRIVATE KEY'): a string searches its text, an
\* array compares its elements, any other truthy value has no such method.
HasIncludes(v) == v.t \in {"string", "array"}
KeyIncludesMarker(v) ==
    CASE v.t = "string" -> Includes(v.s, PemMarker)
      [] v.t = "array"  -> \E i \in DOMAIN v.a : v.a[i] = Str(<<PemMarker>>)
      [] OTHER          -> FALSE

RECURSIVE MissingErrors(_, _)
MissingErrors(sa, fields) ==
    IF fields = <<>> THEN <<>>
    ELSE (IF Truthy(Field(sa, fields[1])) THEN <<>>
          ELSE <<MissingFieldError(fields[1])>>)
         \o MissingErrors(sa, Tail(fields))

\* The errors validateServiceAccount collects, in the order it pushes them.
ServiceAccountErrorsNoType(sa) ==
    MissingErrors(sa, ServiceAccountFields)
    \o (IF Truthy(Field(sa, "private_key")) /\ ~KeyIncludesMarker(Field(sa, "private_key"))
        THEN <<InvalidKeyError>> ELSE <<>>)
    \o (IF Truthy(Field(sa, "client_email")) /\ ~IsValidEmail(Field(sa, "client_email"))
        THEN <<InvalidEmailError>> ELSE <<>>)
ServiceAccountErrorsFirstOnly(sa) ==
    LET all == MissingErrors(sa, ServiceAccountFields)
               \o (IF Truthy(Field(sa, "type")) /\ Field(sa, "type") # Str(ServiceAccountType)
                   THEN <<InvalidTypeError>> ELSE <<>>)
               \o (IF Truthy(Field(sa, "private_key"))
                      /\ ~KeyIncludesMarker(Field(sa, "private_key"))
                   THEN <<InvalidKeyError>> ELSE <<>>)
               \o (IF Truthy(Field(sa, "client_email"))
                      /\ ~IsValidEmail(Field(sa, "client_email"))
                   THEN <<InvalidEmailError>> ELSE <<>>)
    IN  IF all = <<>> THEN <<>> ELSE <<all[1]>>
ServiceAccountErrors(sa) ==
    MissingErrors(sa, ServiceAccountFields)
    \o (IF Truthy(Field(sa, "type")) /\ Field(sa, "type") # Str(ServiceAccountType)
        THEN <<InvalidTypeError>> ELSE <<>>)
    \o (IF Truthy(Field(sa, "private_key")) /\ ~KeyIncludesMarker(Field(sa, "private_key"))
        THEN <<InvalidKeyError>> ELSE <<>>)
    \o (IF Truthy(Field(sa, "client_email")) /\ ~IsValidEmail(Field(sa, "client_email"))
        THEN <<InvalidEmailError>> ELSE <<>>)

\* validateServiceAccount: {isValid, errors}, or a TypeError when a truthy
\* private_key has no includes method.
validateServiceAccountNoGuard(sa) ==
    IF Truthy(Field(sa, "private_key")) /\ ~HasIncludes(Field(sa, "private_key"))
    THEN [threw |-> TRUE, isValid |-> FALSE,
          errors |-> <<<<"serviceAccount.private_key.includes", "is", "not", "a", "function">>>>]
    ELSE [threw |-> FALSE,
          isValid |-> ServiceAccountErrors(sa) = <<>>,
          errors |-> ServiceAccountErrors(sa)]
validateServiceAccount(sa) ==
    IF ~Truthy(sa) \/ ~TypeofObject(sa)
    THEN [threw |-> FALSE, isValid |-> FALSE, errors |-> <<NotObjectError>>]
    ELSE IF Truthy(Field(sa, "private_key")) /\ ~HasIncludes(Field(sa, "private_key"))
    THEN [threw |-> TRUE, isValid |-> FALSE,
          errors |-> <<<<"serviceAccount.private_key.includes", "is", "not", "a", "function">>>>]
    ELSE [threw |-> FALSE,
          isValid |-> ServiceAccountErrors(sa) = <<>>,
          errors |-> ServiceAccountErrors(sa)]

\* validatePayload (part_001 21-66)
PayloadFields == <<"firebaseConfig", "token", "title", "body">>
MaxTitleLen  == 100
MaxBodyLen   == 1000
MinTokenLen  == 10
MinConfigLen == 50

RECURSIVE MissingNames(_, _)
MissingNames(payload, fields) ==
    IF fields = <<>> THEN <<>>
    ELSE (IF Truthy(Field(payload, fields[1])) THEN <<>> ELSE <<<<fields[1]>>>>)
         \o MissingNames(payload, Tail(fields))

RECURSIVE NotStringErrors(_, _)
NotStringErrors(payload, fields) ==
    IF fields = <<>> THEN <<>>
    ELSE (IF Truthy(Field(payload, fields[1])) /\ ~TypeofString(Field(payload, fields[1]))
          THEN <<<<"Field '", fields[1], "' must be a string">>>> ELSE <<>>)
         \o NotStringErrors(payload, Tail(fields))

PayloadErrors(payload) ==
    (IF MissingNames(payload, PayloadFields) # <<>>
     THEN <<<<"Missing required fields: ">> \o Join(MissingNames(payload, PayloadFields))>>
     ELSE <<>>)
    \o NotStringErrors(payload, PayloadFields)
    \o (IF Truthy(Field(payload, "title")) /\ LengthOver(Field(payload, "title"), MaxTitleLen)
        THEN <<<<"Title must be 100 characters or less">>>> ELSE <<>>)
    \o (IF Truthy(Field(payload, "body")) /\ LengthOver(Field(payload, "body"), MaxBodyLen)
        THEN <<<<"Body must be 1000 characters or less">>>> ELSE <<>>)
    \o (IF Truthy(Field(payload, "token")) /\ LengthUnder(Field(payload, "token"), MinTokenLen)
        THEN <<<<"FCM token appears to be invalid (too short)">>>> ELSE <<>>)
    \o (IF Truthy(Field(payload, "firebaseConfig"))
           /\ LengthUnder(Field(payload, "firebaseConfig"), MinConfigLen)
        THEN <<<<"Firebase config appears to be invalid (too short)">>>> ELSE <<>>)

validatePayload(payload) ==
    IF ~Truthy(payload) \/ ~TypeofObject(payload)
    THEN [isValid |-> FALSE, errors |-> <<<<"Request payload must be a valid JSON object">>>>]
    ELSE [isValid |-> PayloadErrors(payload) = <<>>, errors |-> PayloadErrors(payload)]

\* _sanitizeString / sanitizePayload (part_001 145-174)
SanitizeString(v) == IF TypeofString(v) THEN Trim(v) ELSE Str(<<>>)
sanitizePayload(payload) ==
    [f \in {"firebaseConfig", "token", "title", "body"} |-> SanitizeString(Field(payload, f))]

\* validateEndpoint (part_001 120-138)
validateEndpointAnyMethod(method, path) ==
    IF path # "/sendNotification"
    THEN [isValid |-> FALSE, statusCode |-> 404,
          error |-> <<"Not Found. Use POST /sendNotification">>]
    ELSE [isValid |-> TRUE, statusCode |-> 0, error |-> <<>>]
validateEndpoint(method, path) ==
    IF method # "POST"
    THEN [isValid |-> FALSE, statusCode |-> 405,
          error |-> <<"Method ", method, " not allowed. Use POST only.">>]
    ELSE IF path # "/sendNotification"
    THEN [isValid |-> FALSE, statusCode |-> 404,
          error |-> <<"Not Found. Use POST /sendNotification">>]
    ELSE [isValid |-> TRUE, statusCode |-> 0, error |-> <<>>]

\* ------------------------------------------------ CryptoManager (crypto.js)
\* AES-256-CBC under the SHA-256 hash of the key and the all-zero IV is
\* modelled as an ideal cipher: a ciphertext names the key it was made with
\* and the text it hides; deciphering it with another key, or deciphering
\* bytes that no encryption made, fails in decipher.final or yields text that
\* JSON.parse rejects.
JsonText(v) == [json |-> TRUE, v |-> v]
BadJson     == [json |-> FALSE, v |-> Undefined]

\* _createIV (crypto.js 34-36): Buffer.alloc(16, 0), whatever randomness the
\* process could draw at the call.
ZeroIV == 0
createRandomIV(entropy) == entropy
createIV(entropy) == ZeroIV

\* The bytes createCipheriv makes of `text` under the hash of `key` and `iv`.
Encipher(key, iv, text) == [cipher |-> TRUE, key |-> key, iv |-> iv, text |-> text]
Cipher(key, text) == Encipher(key, ZeroIV, text)
Corrupt           == [cipher |-> FALSE, key |-> "", iv |-> ZeroIV, text |-> BadJson]

\* process.env.SECRET_KEY when the variable is not set (undefined), and when
\* it is set to the empty string; hash.update throws on the first only.
NoKey    == "<undefined>"
EmptyKey == ""

DecryptionFailed(reason) == <<"Decryption", "failed:">> \o reason
EncryptionFailed(reason) == <<"Encryption", "failed:">> \o reason

\* What JSON.parse gives back of JSON.stringify(v): properties holding
\* undefined are left out, undefined array elements become null.
RECURSIVE Serialised(_)
Serialised(v) ==
    CASE v.t = "object" ->
             Obj([k \in {n \in DOMAIN v.f : v.f[n].t # "undefined"} |-> Serialised(v.f[k])])
      [] v.t = "array"  ->
             Arr([i \in DOMAIN v.a |->
                     IF v.a[i].t = "undefined" THEN Null ELSE Serialised(v.a[i])])
      [] OTHER          -> v
Stringify(v) == JsonText(Serialised(v))

\* The text of a string given to encrypt is used as it is; JSON.parse reads a
\* number, null or a quoted string out of it, and rejects anything else.
ParseJson(s) ==
    IF s = <<"n", "u", "l", "l">> THEN JsonText(Null)
    ELSE IF Len(s) = 1 /\ \E d \in 0..9 : DigitChar(d) = s[1]
    THEN JsonText(Num(CHOOSE d \in 0..9 : DigitChar(d) = s[1]))
    ELSE IF /\ Len(s) >= 2 /\ s[1] = "\"" /\ s[Len(s)] = "\""
            /\ \A i \in 2..(Len(s) - 1) : s[i] \notin {"\"", "\\"}
    THEN JsonText(Str(SubSeq(s, 2, Len(s) - 1)))
    ELSE BadJson
RawText(data) == IF data.t = "string" THEN ParseJson(data.s) ELSE BadJson

\* encrypt (crypto.js 45-60).  JSON.stringify(undefined) is undefined, which
\* cipher.update refuses; hash.update refuses an undefined key.
encryptStringified(data, key, entropy) ==
    IF key = NoKey \/ data.t = "undefined"
    THEN [ok |-> FALSE, value |-> Undefined, message |-> EncryptionFailed(<<>>)]
    ELSE [ok |-> TRUE, value |-> Text(64, 0, Encipher(key, createIV(entropy), Stringify(data))),
          message |-> <<>>]
encrypt(data, key, entropy) ==
    IF key = NoKey
    THEN [ok |-> FALSE, value |-> Undefined,
          message |-> EncryptionFailed(<<"The", "data", "argument", "must", "be", "of", "type", "string">>)]
    ELSE IF data.t = "undefined"
    THEN [ok |-> FALSE, value |-> Undefined,
          message |-> EncryptionFailed(<<"The", "data", "argument", "must", "be", "of", "type", "string">>)]
    ELSE LET jsonString == IF TypeofString(data) THEN RawText(data) ELSE Stringify(data)
         IN  [ok |-> TRUE, value |-> Text(64, 0, Encipher(key, createIV(entropy), jsonString)),
              message |-> <<>>]

decryptNoParse(encryptedData, key) ==
    IF \/ ~TypeofString(encryptedData) \/ key = NoKey \/ encryptedData.t # "text"
       \/ ~encryptedData.body.cipher \/ encryptedData.body.key # key
    THEN [ok |-> FALSE, value |-> Undefined, message |-> DecryptionFailed(<<"bad", "decrypt">>)]
    ELSE [ok |-> TRUE, value |-> Str(<<"{", "}">>), message |-> <<>>]

\* decrypt (crypto.js 69-90): every failure of the try block is rethrown as
\* 'Decryption failed: <message>'.
decrypt(encryptedData, key) ==
    IF ~TypeofString(encryptedData)
    THEN [ok |-> FALSE, value |-> Undefined,
          message |-> DecryptionFailed(<<"The", "first", "argument", "must", "be", "a", "string">>)]
    ELSE IF key = NoKey
    THEN [ok |-> FALSE, value |-> Undefined,
          message |-> DecryptionFailed(<<"The", "data", "argument", "must", "be", "of", "type", "string">>)]
    ELSE IF encryptedData.t # "text" \/ ~encryptedData.body.cipher
    THEN [ok |-> FALSE, value |-> Undefined,
          message |-> DecryptionFailed(<<"wrong", "final", "block", "length">>)]
    ELSE IF encryptedData.body.key # key
    THEN [ok |-> FALSE, value |-> Undefined,
          message |-> DecryptionFailed(<<"bad", "decrypt">>)]
    ELSE IF encryptedData.body.iv # ZeroIV \/ ~encryptedData.body.text.json
    THEN [ok |-> FALSE, value |-> Undefined,
          message |-> DecryptionFailed(<<"Unexpected", "token", "in", "JSON">>)]
    ELSE [ok |-> TRUE, value |-> encryptedData.body.text.v, message |-> <<>>]

\* config.get('secretKey') (environment.js 29, 58-60)
SecretKey == "k1"

\* --------------------------------- FirebaseNotificationService (part_004)
NoApp == <<>>

\* Math.random().toString(36).substring(7): what follows the first seven
\* characters ("0." and five digits) of the base-36 text of the random number.
RandomSuffix(r36) == SubSeq(r36, 8, Len(r36))

\* _generateAppName (part_004 25-28), the template literal, for the value
\* the counter has after its increment.
AppNameWithoutCounter(ts, counter, r36) ==
    <<"alwari-relay-">> \o Digits(ts) \o <<"-">> \o RandomSuffix(r36)
AppName(ts, counter, r36) ==
    <<"alwari-relay-">> \o Digits(ts) \o <<"-">> \o Digits(counter)
        \o <<"-">> \o RandomSuffix(r36)

\* The legacy server's app name (server.js 79): time and random suffix only.
LegacyAppName(ts, r36) == <<"temp-">> \o Digits(ts) \o <<"-">> \o RandomSuffix(r36)

\* The fixed messages sendNotification throws (part_004 165-173).
TokenNotRegisteredMsg == <<"FCM", "token", "is", "not", "registered", "or", "has", "expired">>
InvalidTokenMsg       == <<"FCM", "token", "format", "is", "invalid">>
AuthFailedMsg         == <<"Firebase", "service", "account", "authentication", "failed">>
MessagingErrorPrefix  == <<"Firebase", "messaging", "error:">>
InitFailedPrefix      == <<"Failed", "to", "initialize", "Firebase", "app:">>

\* An error object: its code property ("" when it has none) and its message.
Err(code, message) == [code |-> code, message |-> message]

\* The catch block of sendNotification (part_004 156-173): the error thrown
\* to the caller for the error caught.
ClassifySendErrorByText(error) ==
    IF Includes(error.message, "token") THEN Err("", InvalidTokenMsg)
    ELSE IF Includes(error.message, "authentication") THEN Err("", AuthFailedMsg)
    ELSE Err("", MessagingErrorPrefix \o error.message)
ClassifySendError(error) ==
    IF error.code = "messaging/registration-token-not-registered"
    THEN Err("", TokenNotRegisteredMsg)
    ELSE IF error.code = "messaging/invalid-registration-token"
    THEN Err("", InvalidTokenMsg)
    ELSE IF error.code = "messaging/authentication-error"
    THEN Err("", AuthFailedMsg)
    ELSE Err("", MessagingErrorPrefix \o error.message)

\* The catch block of _initializeFirebaseApp (part_004 50-53).
InitError(error) == Err("", InitFailedPrefix \o error.message)

\* ------------------------------------------------ RequestHandler (part_003)
\* The status and error text the catch block of handleRequest answers with
\* (part_003 131-144).
ErrorStatusNoAuth(message) ==
    IF Includes(message, "token") THEN 400
    ELSE IF Includes(message, "timeout") THEN 408
    ELSE 500
ErrorStatus(message) ==
    IF Includes(message, "token") THEN 400
    ELSE IF Includes(message, "authentication") THEN 401
    ELSE IF Includes(message, "timeout") THEN 408
    ELSE 500
ErrorText(message) ==
    IF Includes(message, "token") THEN message
    ELSE IF Includes(message, "authentication") THEN <<"Firebase authentication failed">>
    ELSE IF Includes(message, "timeout") THEN <<"Request timeout">>
    ELSE <<"Internal server error">>

\* A completion of a call: nothing yet, a value returned, or an error thrown.
NoCompletion      == [kind |-> "none", value |-> "", error |-> Err("", <<>>)]
Returned(value)   == [kind |-> "return", value |-> value, error |-> Err("", <<>>)]
Thrown(error)     == [kind |-> "throw", value |-> "", error |-> error]

\* What one synchronous section of an entry point decides: answer at once
\* (an HTTP response, or an error thrown to the library's caller) or hand the
\* credential to the notification service.  decrypt, cred and validated record
\* which phases ran.
Answer(status, error, errors, decrypted, cred, validated) ==
    [kind |-> "answer", status |-> status, error |-> error, errors |-> errors,
     decrypted |-> decrypted, cred |-> cred, validated |-> validated]
Dispatch(cred) ==
    [kind |-> "dispatch", status |-> 0, error |-> <<>>, errors |-> <<>>,
     decrypted |-> "ok", cred |-> cred, validated |-> TRUE]

\* The guard of the inner catch of handleRequest (part_003 78-87): a failed
\* decryption answers and returns.
DecryptNeverStops(d) == FALSE
DecryptStops(d) == ~d.ok
\* The guard after validateServiceAccount (part_003 91-96, part_004 365-367).
ValidationNeverStops(v) == FALSE
ValidationStops(v) == ~v.isValid

DecryptFailedText   == <<"Failed to decrypt Firebase configuration">>
InvalidAccountText  == <<"Invalid Firebase service account">>
ValidationFailedText == <<"Validation failed">>

\* handleRequest from the settling of parseRequestBody to the call of
\* firebaseService.sendNotification (part_003 56-104, catch 122-150).
HandlerCredentialPhase(d) ==
    LET sa == IF d.ok THEN d.value ELSE Undefined
        v  == validateServiceAccount(sa)
    IN  IF v.threw
        THEN Answer(ErrorStatus(v.errors[1]), ErrorText(v.errors[1]), <<>>,
                    IF d.ok THEN "ok" ELSE "failed", sa, TRUE)
        ELSE IF ValidationStops(v)
        THEN Answer(400, InvalidAccountText, v.errors,
                    IF d.ok THEN "ok" ELSE "failed", sa, TRUE)
        ELSE Dispatch(sa)

HandlerPlan(parse, key) ==
    IF ~parse.ok
    THEN Answer(ErrorStatus(parse.message), ErrorText(parse.message), <<>>,
                "none", Undefined, FALSE)
    ELSE LET pv == validatePayload(parse.value) IN
         IF ~pv.isValid
         THEN Answer(400, ValidationFailedText, pv.errors, "none", Undefined, FALSE)
         ELSE LET sp == sanitizePayload(parse.value)
                  d  == decrypt(sp.firebaseConfig, key)
              IN  IF DecryptStops(d)
                  THEN Answer(400, DecryptFailedText, <<>>, "failed", Undefined, FALSE)
                  ELSE HandlerCredentialPhase(d)

\* FirebaseNotificationHandler.sendNotification up to the call of the service
\* (part_004 346-376): every failure is thrown to the caller (status 0).
LibCredentialPhase(d) ==
    LET v == validateServiceAccount(d.value) IN
    IF v.threw
    THEN Answer(0, v.errors[1], <<>>, "ok", d.value, TRUE)
    ELSE IF ValidationStops(v)
    THEN Answer(0, <<"Invalid service account: ">> \o Join(v.errors), v.errors,
                "ok", d.value, TRUE)
    ELSE Dispatch(d.value)

LibDecryptPhase(blob, key) ==
    LET d == decrypt(blob, key) IN
    IF ~d.ok
    THEN Answer(0, d.message, <<>>, "failed", Undefined, FALSE)
    ELSE LibCredentialPhase(d)

LibPlan(params, key) ==
    LET pv == validatePayload(params) IN
    IF ~pv.isValid
    THEN Answer(0, <<"Validation failed: ">> \o Join(pv.errors), pv.errors,
                "none", Undefined, FALSE)
    ELSE LibDecryptPhase(Field(params, "firebaseConfig"), key)

\* FirebaseNotificationHandler.sendBatchNotifications up to the call of the
\* service (part_004 386-404): no payload validation.
BatchPlan(params, key) == LibDecryptPhase(Field(params, "firebaseConfig"), key)

\* The legacy server's handleRequest from the settling of parseRequestBody
\* to the call of sendNotification (server.js 202-245).  Destructuring null
\* and reading a property of null throw into the outer catch, which answers
\* 500 with the error's message (server.js 261-269).
LegacyMissingText   == <<"Missing required fields: firebaseConfig, token, title, body">>
LegacyNotStringText == <<"All fields must be strings">>
LegacyInvalidText   == <<"Invalid Firebase service account configuration">>
NullReadText        == <<"Cannot", "read", "properties", "of", "null">>
LegacyPlan(parse, key) ==
    IF ~parse.ok
    THEN Answer(500, parse.message, <<>>, "none", Undefined, FALSE)
    ELSE IF parse.value.t \in {"null", "undefined"}
    THEN Answer(500, NullReadText, <<>>, "none", Undefined, FALSE)
    ELSE IF \E f \in {"firebaseConfig", "token", "title", "body"} : ~Truthy(Field(parse.value, f))
    THEN Answer(400, LegacyMissingText, <<>>, "none", Undefined, FALSE)
    ELSE IF \E f \in {"firebaseConfig", "token", "title", "body"} :
                ~TypeofString(Field(parse.value, f))
    THEN Answer(400, LegacyNotStringText, <<>>, "none", Undefined, FALSE)
    ELSE LET d == decrypt(Field(parse.value, "firebaseConfig"), key) IN
         IF ~d.ok
         THEN Answer(400, DecryptFailedText, <<>>, "failed", Undefined, FALSE)
         ELSE IF d.value.t \in {"null", "undefined"}
         THEN Answer(500, NullReadText, <<>>, "ok", d.value, FALSE)
         ELSE IF \E f \in {"project_id", "private_key", "client_email"} :
                     ~Truthy(Field(d.value, f))
         THEN Answer(400, LegacyInvalidText, <<>>, "ok", d.value, FALSE)
         ELSE Dispatch(d.value)

\* ------------------------------------------------------------------ inputs
Email == Str(<<"a", "@", "b", ".", "c">>)
Cred(type, project, key, email) ==
    Obj([type |-> type, project_id |-> project, private_key |-> key, client_email |-> email])

GoodCred        == Cred(Str(ServiceAccountType), Str(<<"p">>), Str(<<"-", PemMarker, "-">>), Email)
UserAccountCred == Cred(Str(<<"user_account">>), Str(<<"p">>), Str(<<"-", PemMarker, "-">>), Email)
BadKeyMailCred  == Cred(Str(ServiceAccountType), Str(<<"p">>), Str(<<"k">>), Str(<<"a", "@", "b">>))
NoProjectCred   == Cred(Str(ServiceAccountType), Str(<<>>), Str(<<"-", PemMarker, "-">>), Email)
NumberKeyCred   == Cred(Str(ServiceAccountType), Str(<<"p">>), Num(5), Email)
EmptyCred       == Obj([x \in {} |-> Undefined])
\* A private_key that is an array holding the marker as an element, a
\* credential breaking several rules at once, a numeric project_id.
ArrayKeyCred    == Cred(Str(ServiceAccountType), Str(<<"p">>), Arr(<<Str(<<PemMarker>>)>>), Email)
ManyFaultsCred  == Cred(Str(<<"user_account">>), Str(<<>>), Str(<<"k">>), Str(<<"a", "@", "b">>))
NumberIdCred    == Cred(Str(ServiceAccountType), Num(7), Str(<<"-", PemMarker, "-">>), Email)

\* The values a deciphered text can parse to.
Credentials ==
    {GoodCred, UserAccountCred, BadKeyMailCred, NoProjectCred, NumberKeyCred,
     EmptyCred, Null, Num(5),
     ArrayKeyCred, ManyFaultsCred, NumberIdCred,
     Num(0), Str(<<"s">>), Str(<<>>), Bool(TRUE), Bool(FALSE), Arr(<<>>)}

Blobs ==
    {Cipher(SecretKey, JsonText(c)) : c \in Credentials}
    \cup {Cipher("k2", JsonText(GoodCred)), Cipher(SecretKey, BadJson), Corrupt,
          Cipher(EmptyKey, JsonText(GoodCred))}

Payload(config, token, title, body) ==
    Obj([firebaseConfig |-> config, token |-> token, title |-> title, body |-> body])

GoodToken == Text(12, 0, "token")
GoodTitle == Text(5, 0, "title")
GoodBody  == Text(20, 0, "body")

GoodPayload(b) == Payload(Text(64, 0, b), GoodToken, GoodTitle, GoodBody)

\* Request bodies after JSON.parse: one well-formed payload for every blob,
\* and payloads validatePayload rejects.
Payloads ==
    {GoodPayload(b) : b \in Blobs}
    \cup {Payload(Text(64, 2, Cipher(SecretKey, JsonText(GoodCred))),
                  Text(12, 1, "token"), Text(5, 1, "title"), GoodBody),
          Payload(Text(64, 0, Corrupt), Text(9, 0, "token"), Text(101, 0, "title"), GoodBody),
          Payload(Text(49, 0, Corrupt), Num(7), GoodTitle, Text(1001, 0, "body")),
          Payload(Undefined, GoodToken, Str(<<>>), GoodBody),
          Payload(Text(64, 0, Cipher(SecretKey, JsonText(GoodCred))),
                  Text(12, 4, "token"), Text(3, 3, "title"), GoodBody),
          Null, Num(5)}

\* How parseRequestBody settles (part_002 65-115).
ParseOk(value)    == [ok |-> TRUE, value |-> value, message |-> <<>>]
ParseFail(message) == [ok |-> FALSE, value |-> Undefined, message |-> message]
ParseOutcomes ==
    {ParseOk(p) : p \in Payloads}
    \cup {ParseFail(<<"Request", "payload", "too", "large">>),
          ParseFail(<<"Empty", "request", "body">>),
          ParseFail(<<"Invalid", "JSON", "in", "request", "body">>),
          ParseFail(<<"Request", "timeout">>),
          ParseFail(<<"socket", "hang", "up">>)}

\* A run explores either one request over all the inputs above ("single") or
\* MaxReq concurrent requests over the representative inputs below ("many").
FewPayloads ==
    {GoodPayload(Cipher(SecretKey, JsonText(GoodCred))),
     GoodPayload(Cipher(SecretKey, JsonText(UserAccountCred))),
     GoodPayload(Corrupt)}
FewParseOutcomes ==
    {ParseOk(p) : p \in FewPayloads} \cup {ParseFail(<<"Request", "timeout">>)}

Methods   == {"POST", "GET", "OPTIONS"}
Pathnames == {"/sendNotification", "/health", "/other"}
Keys      == {SecretKey, "k2"}

\* Base-36 texts of Math.random(): a short one (empty suffix) and a long one.
RandomTexts ==
    {<<"0", ".", "i">>, <<"0", ".", "4", "f", "z", "y", "o", "8", "2">>,
     <<"0", ".", "4", "f", "z", "y", "o", "8", "2", "m", "v", "y", "r">>}

\* The values Date.now() returns: two calls may read the same millisecond or
\* different ones, in either order (the wall clock can be set back).
Timestamps == {0, 1}

FewRandomTexts == {<<"0", ".", "4", "f", "z", "y", "o", "8", "2">>}
LegacyRandomTexts ==
    {<<"0", ".", "4", "f", "z", "y", "o", "8", "2">>,
     <<"0", ".", "4", "f", "z", "y", "o", "8", "2", "m", "v", "y", "r">>}

\* How the provider settles send (part_004 141): a message id, or an error.
MessageIds == {"projects/p/messages/1"}
SendErrors ==
    {Err("messaging/registration-token-not-registered", <<"Requested", "entity", "was", "not", "found">>),
     Err("messaging/invalid-registration-token", <<"Invalid", "registration">>),
     Err("messaging/authentication-error", <<"Auth", "error">>),
     Err("messaging/internal-error", <<"Internal", "error">>),
     Err("messaging/invalid-argument", <<"The", "registration", "token", "is", "malformed">>),
     Err("app/invalid-credential", <<"Failed", "authentication", "of", "credential">>),
     Err("", <<"socket", "timeout">>),
     Err("app/invalid-credential",
         <<"Credential", "failed", "to", "fetch", "a", "valid", "Google", "OAuth2",
           "access", "token">>),
     Err("messaging/internal-error", TokenNotRegisteredMsg),
     Err("messaging/authentication-error", <<"Request", "is", "missing", "a", "valid", "token">>),
     Err("messaging/server-unavailable", <<"The", "server", "could", "not", "process", "the", "request">>)}

FewSendErrors ==
    {e \in SendErrors : e.code = "messaging/registration-token-not-registered"}

\* Errors of admin.credential.cert and initializeApp (part_004 41-43).
CertError      == Err("app/invalid-credential", <<"Failed", "to", "parse", "private", "key">>)
DuplicateError == Err("app/duplicate-app", <<"Firebase", "app", "already", "exists">>)

\* ------------------------------------------------------------------- state
VARIABLES
    scope,       \* "single" or "many": which inputs the run explores (never changes)
    pc,          \* where each request or library call stands
    mode,        \* its entry point: "http", "lib", "batch" ("none" before it starts)
    appCounter,  \* FirebaseNotificationService.appCounter
    generated,   \* the app names _generateAppName has returned
    registry,    \* the apps registered with firebase-admin (live apps)
    app,         \* the variable `app` of sendNotification / sendBatchNotifications
    created,     \* the app each call's initializeApp registered
    initFailed,  \* whether the call's app initialization threw
    sends,       \* the apps each call's send / sendAll was issued on
    deletes,     \* the arguments of each call's deleteApp calls
    inflight,    \* whether a deleteApp of the call has not settled yet
    delResult,   \* how the call's deleteApp settled: "none", "ok", "failed"
    sendResult,  \* how the call's send settled, as the provider reported it
    pending,     \* the completion of the try/catch, held while finally runs
    outcome,     \* how the service call settled
    delivered,   \* what the entry point gave its caller: HTTP responses / completion
    phase,       \* which phases of the entry point ran, and on what credential
    parsed,      \* how parseRequestBody settled / the parameters the library got
    config,      \* the environment configuration loaded at startup, and whether
                 \* its validation warned
    request,     \* method and pathname of each HTTP request
    ops,         \* the calls of encrypt and decrypt made so far, and what
                 \* happened to ciphertexts in between
    proc,        \* the server process: its shutdown flag, timers and exit
    upload       \* one parseRequestBody call: body read so far, size, timer
                 \* and the state of its promise

vars == <<scope, pc, mode, appCounter, generated, registry, app, created, initFailed,
          sends, deletes, inflight, delResult, sendResult, pending, outcome,
          delivered, phase, parsed, config, request, ops, proc, upload>>

codecVars == <<ops>>
procVars  == <<proc>>
reqVars   == <<pc, mode, phase, parsed, delivered, config, request>>
bodyVars  == <<upload>>

\* The process after start() (part_000 59-95): running, not shutting down, no
\* timer set.  events counts the signals and fatal errors delivered, fatal
\* tells whether one of them was an uncaughtException or unhandledRejection,
\* sessions holds the requests whose app was live when the shutdown began.
Running0 ==
    [isShuttingDown |-> FALSE, exitArg |-> 0, closeCalls |-> 0, forceTimers |-> 0,
     closing |-> FALSE, graceArmed |-> FALSE, forceArmed |-> FALSE,
     exited |-> FALSE, exitCode |-> 0, fatal |-> FALSE, events |-> 0, sessions |-> {}]

\* A parseRequestBody call right after the promise's executor ran (part_002
\* 66-69, 106-108): nothing read, promise pending, timer set.  calls counts
\* the resolve and reject calls, first is the completion the first of them
\* asked for.
Listening ==
    [body |-> <<>>, size |-> 0, promise |-> NoCompletion, calls |-> 0,
     first |-> NoCompletion, timer |-> "armed", ended |-> FALSE, errored |-> FALSE,
     chunks |-> 0]

\* The inputs a run draws from: all of them for one request, the
\* representative ones for concurrent requests.
Pick(full, few) == IF scope = "single" THEN full ELSE few

NoRequest == [method |-> "", pathname |-> ""]

\* EnvironmentConfig: _loadConfiguration and _validateConfiguration
\* (environment.js 26-51).  A missing secretKey is only warned about, and not
\* even that when NODE_ENV is 'test'.
Missing(key) == key \in {NoKey, EmptyKey}
ValidationWarns(key, nodeEnv) == nodeEnv # "test" /\ Missing(key)
LoadConfiguration(key, nodeEnv) ==
    [secretKey |-> key, nodeEnv |-> nodeEnv, warned |-> ValidationWarns(key, nodeEnv)]

EnvKeys  == {SecretKey, NoKey, EmptyKey}
NodeEnvs == {"production", "test"}

NotParsed == [ok |-> FALSE, value |-> Undefined, message |-> <<>>]
NoPhase == [decrypted |-> "none", cred |-> Undefined, validated |-> FALSE]

InitState ==
    /\ pc = [r \in Reqs |-> "idle"]
    /\ mode = [r \in Reqs |-> "none"]
    /\ appCounter = 0
    /\ generated = {}
    /\ registry = {}
    /\ app = [r \in Reqs |-> NoApp]
    /\ created = [r \in Reqs |-> NoApp]
    /\ initFailed = [r \in Reqs |-> FALSE]
    /\ sends = [r \in Reqs |-> <<>>]
    /\ deletes = [r \in Reqs |-> <<>>]
    /\ inflight = [r \in Reqs |-> FALSE]
    /\ delResult = [r \in Reqs |-> "none"]
    /\ sendResult = [r \in Reqs |-> NoCompletion]
    /\ pending = [r \in Reqs |-> NoCompletion]
    /\ outcome = [r \in Reqs |-> NoCompletion]
    /\ delivered = [r \in Reqs |-> <<>>]
    /\ phase = [r \in Reqs |-> NoPhase]
    /\ parsed = [r \in Reqs |-> NotParsed]
    /\ request = [r \in Reqs |-> NoRequest]
    /\ ops = <<>>
    /\ proc = Running0
    /\ upload = Listening

Init ==
    /\ scope = "many"
    /\ config = LoadConfiguration(SecretKey, "production")
    /\ InitState
InitSingle ==
    /\ scope = "single"
    /\ \E key \in EnvKeys, nodeEnv \in NodeEnvs : config = LoadConfiguration(key, nodeEnv)
    /\ InitState

\* What an entry point hands its caller: an HTTP response written and ended,
\* or the settling of the library promise.
ResponseWithoutId(status, error, errors, messageId) ==
    [how |-> "response", status |-> status, error |-> error, errors |-> errors,
     messageId |-> ""]
Response(status, error, errors, messageId) ==
    [how |-> "response", status |-> status, error |-> error, errors |-> errors,
     messageId |-> messageId]
Settled(how, error, errors, value) ==
    [how |-> how, status |-> 0, error |-> error, errors |-> errors, messageId |-> value]

\* What one call of sendJSONResponse writes (part_002 123-147): writeHead and
\* end, once; the fallback of its catch block runs only when they threw.
WrittenWithFallback(answer) == <<answer, answer>>
Written(answer) == <<answer>>

\* ----------------------------------------------------------------- service
\* this.appCounter++ (part_004 26)
NextCounterLost(c) == IF c = 0 THEN 1 ELSE c
NextCounter(c) == c + 1

\* `let app = null` is a variable of the call (part_004 124, 188): every call
\* has its own.
SharedSlot(r) == 1
AppSlot(r) == r

\* The provider sends one run of the try block issues on the app `a`
\* (part_004 141, 200): one, with no loop around it.
SendCallsTwice(a) == <<a, a>>
SendCallsNone(a) == <<>>
SendCalls(a) == <<a>>

\* The guard of _cleanupFirebaseApp (part_004 62): nothing to delete when no
\* app was created.
NeverCleanup(a)  == FALSE
AlwaysCleanup(a) == TRUE
NeedsCleanup(a) == a # NoApp

\* The deleteApp calls one run of the finally block issues for the app `a`
\* (part_004 175-178 with 61-65).
CleanupCallsTwice(a) == IF NeedsCleanup(a) THEN <<a, a>> ELSE <<>>
CleanupCalls(a) == IF NeedsCleanup(a) THEN <<a>> ELSE <<>>

\* The finally block awaits the cleanup before the call settles (part_004 177,
\* 220).
NoAwait == FALSE
AwaitsCleanup == TRUE

\* _cleanupFirebaseApp catches and logs a failed deleteApp (part_004 64-73):
\* the completion of the try/catch stands whatever deleteApp did.
CleanupErrorWins(completion, deleteOk) ==
    IF deleteOk THEN completion
    ELSE [kind |-> "throw", value |-> "",
          error |-> [code |-> "app/internal-error", message |-> <<"deleteApp", "failed">>]]
CleanupCompletion(completion, deleteOk) == completion

\* The catch blocks: sendNotification classifies (part_004 156-173),
\* sendBatchNotifications rethrows (part_004 216-218), and so does the legacy
\* sendNotification (server.js 108-110).
CatchAlwaysClassifies(m, error) == ClassifySendError(error)
CatchOf(m, error) ==
    IF m \in {"batch", "legacy"} THEN error ELSE ClassifySendError(error)

\* notifications.map on a value that is no array (part_004 194).
BuildError == Err("", <<"notifications.map", "is", "not", "a", "function">>)

\* The try/catch has completed and finally calls _cleanupFirebaseApp(a).
BeginFinally(r, completion, a) ==
    /\ pending' = [pending EXCEPT ![r] = completion]
    /\ deletes' = [deletes EXCEPT ![r] = @ \o CleanupCalls(a)]
    /\ inflight' = [inflight EXCEPT ![r] = CleanupCalls(a) # <<>>]
    /\ pc' = [pc EXCEPT ![r] = "cleanup"]

\* sendNotification / sendBatchNotifications from the call to the first await
\* (part_004 123-141, 187-200), with _initializeFirebaseApp (37-54) and
\* _generateAppName (25-28).  initializeApp throws when cert rejects the
\* credential and when an app of that name is registered.
ServiceStart(r, m, buildOk) ==
    \E ts \in Timestamps, r36 \in Pick(RandomTexts, FewRandomTexts), certOk \in BOOLEAN :
        LET counter == NextCounter(appCounter)
            name    == AppName(ts, counter, r36)
            initOk  == certOk /\ name \notin registry
            initErr == IF certOk THEN DuplicateError ELSE CertError
        IN  /\ appCounter' = counter
            /\ generated' = generated \cup {name}
            /\ IF initOk
               THEN /\ registry' = registry \cup {name}
                    /\ app' = [app EXCEPT ![AppSlot(r)] = name]
                    /\ created' = [created EXCEPT ![r] = name]
                    /\ UNCHANGED initFailed
                    /\ IF buildOk
                       THEN /\ sends' = [sends EXCEPT ![r] = @ \o SendCalls(name)]
                            /\ pc' = [pc EXCEPT ![r] = "sending"]
                            /\ UNCHANGED <<pending, deletes, inflight>>
                       ELSE /\ UNCHANGED sends
                            /\ BeginFinally(r, Thrown(CatchOf(m, BuildError)), name)
               ELSE /\ app' = [app EXCEPT ![AppSlot(r)] = NoApp]
                    /\ initFailed' = [initFailed EXCEPT ![r] = TRUE]
                    /\ UNCHANGED <<registry, created, sends>>
                    /\ BeginFinally(r, Thrown(CatchOf(m, InitError(initErr))), NoApp)
            /\ UNCHANGED <<delResult, sendResult, outcome, delivered>>

\* The legacy server's sendNotification from the call to the first await
\* (server.js 74-103): no counter enters the name, and an error of
\* initializeApp is rethrown as it is.
LegacyServiceStart(r) ==
    \E ts \in Timestamps, r36 \in LegacyRandomTexts, certOk \in BOOLEAN :
        LET name    == LegacyAppName(ts, r36)
            initOk  == certOk /\ name \notin registry
            initErr == IF certOk THEN DuplicateError ELSE CertError
        IN  /\ generated' = generated \cup {name}
            /\ IF initOk
               THEN /\ registry' = registry \cup {name}
                    /\ app' = [app EXCEPT ![AppSlot(r)] = name]
                    /\ created' = [created EXCEPT ![r] = name]
                    /\ sends' = [sends EXCEPT ![r] = @ \o SendCalls(name)]
                    /\ pc' = [pc EXCEPT ![r] = "sending"]
                    /\ UNCHANGED <<initFailed, pending, deletes, inflight>>
               ELSE /\ app' = [app EXCEPT ![AppSlot(r)] = NoApp]
                    /\ initFailed' = [initFailed EXCEPT ![r] = TRUE]
                    /\ UNCHANGED <<registry, created, sends>>
                    /\ BeginFinally(r, Thrown(CatchOf("legacy", initErr)), NoApp)
            /\ UNCHANGED <<appCounter, delResult, sendResult, outcome, delivered>>

\* An entry point's synchronous section ends: it answers, or the service
\* call starts.
AnswerOf(m, plan) ==
    IF m \in {"http", "legacy"} THEN Response(plan.status, plan.error, plan.errors, "")
    ELSE Settled("throw", plan.error, plan.errors, "")

Enter(r, m, plan, buildOk) ==
    /\ mode' = [mode EXCEPT ![r] = m]
    /\ phase' = [phase EXCEPT ![r] = [decrypted |-> plan.decrypted, cred |-> plan.cred,
                                      validated |-> plan.validated]]
    /\ IF plan.kind = "answer"
       THEN /\ delivered' = [delivered EXCEPT ![r] = @ \o Written(AnswerOf(m, plan))]
            /\ pc' = [pc EXCEPT ![r] = "done"]
            /\ UNCHANGED <<appCounter, generated, registry, app, created, initFailed,
                           sends, deletes, inflight, delResult, sendResult, pending,
                           outcome>>
       ELSE IF m = "legacy" THEN LegacyServiceStart(r)
       ELSE ServiceStart(r, m, buildOk)
    /\ UNCHANGED scope

\* Requests are numbered in the order they arrive.
MayStart(r) ==
    pc[r] = "idle" /\ (IF r = 1 THEN TRUE ELSE scope \in {"many", "legacy"} /\ pc[r - 1] # "idle")


svcVars == <<appCounter, generated, registry, app, created, initFailed, sends, deletes,
             inflight, delResult, sendResult, pending, outcome>>

SuccessText == <<"Notification sent successfully">>

\* The service call settles with completion o and its caller resumes:
\* handleRequest writes the response (part_003 106-150); the library returns
\* or rethrows (part_004 370-375, 398-403).
Finish(r, o) ==
    LET answer ==
            IF mode[r] = "http"
            THEN IF o.kind = "return" THEN Response(200, SuccessText, <<>>, o.value)
                 ELSE Response(ErrorStatus(o.error.message), ErrorText(o.error.message),
                               <<>>, "")
            ELSE IF mode[r] = "legacy"
            THEN IF o.kind = "return" THEN Response(200, SuccessText, <<>>, o.value)
                 ELSE Response(500, IF o.error.message = <<>> THEN <<"Internal server error">>
                                    ELSE o.error.message, <<>>, "")
            ELSE IF o.kind = "return" THEN Settled("return", <<>>, <<>>, o.value)
                 ELSE Settled("throw", o.error.message, <<>>, "")
    IN  /\ outcome' = [outcome EXCEPT ![r] = o]
        /\ delivered' = [delivered EXCEPT ![r] = @ \o Written(answer)]
        /\ pc' = [pc EXCEPT ![r] = "done"]

\* ----------------------------------------------------------------- actions
HealthText   == <<"Service is healthy">>
NotFoundText == <<"Endpoint not found">>

\* route and the head of handleRequest, to the await of parseRequestBody
\* (part_003 192-211, 29-56).
Route(r) ==
    /\ MayStart(r)
    /\ \E method \in Pick(Methods, {"POST", "GET"}),
          pathname \in Pick(Pathnames, {"/sendNotification"}) :
        LET ev == validateEndpoint(method, pathname)
            answer ==
                IF pathname = "/health" THEN Response(200, HealthText, <<>>, "")
                ELSE IF pathname # "/sendNotification"
                THEN Response(404, NotFoundText, <<>>, "")
                ELSE IF method = "OPTIONS" THEN Response(200, <<>>, <<>>, "")
                ELSE Response(ev.statusCode, ev.error, <<>>, "")
            parses == pathname = "/sendNotification" /\ method # "OPTIONS" /\ ev.isValid
        IN  /\ mode' = [mode EXCEPT ![r] = "http"]
            /\ pc' = [pc EXCEPT ![r] = IF parses THEN "parsing" ELSE "done"]
            /\ delivered' = [delivered EXCEPT ![r] = IF parses THEN @ ELSE @ \o Written(answer)]
            /\ request' = [request EXCEPT ![r] = [method |-> method, pathname |-> pathname]]
    /\ UNCHANGED <<scope, phase, parsed, config, codecVars, procVars, bodyVars>>
    /\ UNCHANGED svcVars

\* parseRequestBody settles and handleRequest runs on to its answer or to the
\* await of the provider send (part_003 56-104).
BodyParsed(r) ==
    /\ pc[r] = "parsing"
    /\ \E parse \in Pick(ParseOutcomes, FewParseOutcomes) :
        /\ parsed' = [parsed EXCEPT ![r] = parse]
        /\ Enter(r, "http", HandlerPlan(parse, config.secretKey), TRUE)
    /\ UNCHANGED <<config, request, codecVars, procVars, bodyVars>>

\* FirebaseNotificationHandler.sendNotification is called (part_004 346-376).
LibSendNotification(r) ==
    /\ MayStart(r)
    /\ \E params \in Pick({p \in Payloads : p.t = "object"}, FewPayloads),
          key \in Pick(Keys, {SecretKey}) :
        /\ parsed' = [parsed EXCEPT ![r] = ParseOk(params)]
        /\ Enter(r, "lib", LibPlan(params, key), TRUE)
    /\ UNCHANGED <<config, request, codecVars, procVars, bodyVars>>

\* FirebaseNotificationHandler.sendBatchNotifications is called (part_004
\* 386-404); isArray tells whether `notifications` is an array.
LibSendBatch(r) ==
    /\ MayStart(r)
    /\ \E params \in Pick({p \in Payloads : p.t = "object"}, FewPayloads),
          key \in Pick(Keys, {SecretKey}), isArray \in BOOLEAN :
        /\ parsed' = [parsed EXCEPT ![r] = ParseOk(params)]
        /\ Enter(r, "batch", BatchPlan(params, key), isArray)
    /\ UNCHANGED <<config, request, codecVars, procVars, bodyVars>>

\* The provider settles send / sendAll; the catch block runs and finally
\* calls the cleanup (part_004 141-177, 200-220).
SendResults(m) ==
    IF m = "batch"
    THEN {Returned("1 sent, 1 failed"), Thrown(Err("", <<"socket", "timeout">>))}
    ELSE {Returned(id) : id \in MessageIds}
         \cup {Thrown(e) : e \in Pick(SendErrors, FewSendErrors)}

SendSettles(r) ==
    /\ pc[r] = "sending"
    /\ sends[r] # <<>>
    /\ \E res \in SendResults(mode[r]) :
        /\ sendResult' = [sendResult EXCEPT ![r] = res]
        /\ BeginFinally(r,
                        IF res.kind = "return" THEN res
                        ELSE Thrown(CatchOf(mode[r], res.error)),
                        app[AppSlot(r)])
    /\ UNCHANGED <<scope, mode, appCounter, generated, registry, app, created, initFailed,
                   sends, delResult, outcome, delivered, phase, parsed, config, request,
                   codecVars, procVars, bodyVars>>

\* deleteApp settles (part_004 65-73).  It resolves only for a registered
\* app, which it removes; when it rejects, the app may or may not be gone.
\* A finally block awaiting it then lets the call settle, and the caller of
\* the service resumes.
DeleteSettles(r) ==
    /\ inflight[r]
    /\ LET target == deletes[r][Len(deletes[r])] IN
       \E ok \in BOOLEAN, removed \in BOOLEAN :
        /\ ok => (target \in registry /\ removed)
        /\ removed => target \in registry
        /\ registry' = IF removed THEN registry \ {target} ELSE registry
        /\ inflight' = [inflight EXCEPT ![r] = FALSE]
        /\ delResult' = [delResult EXCEPT ![r] = IF ok THEN "ok" ELSE "failed"]
        /\ IF pc[r] = "cleanup"
           THEN Finish(r, CleanupCompletion(pending[r], ok))
           ELSE UNCHANGED <<outcome, delivered, pc>>
    /\ UNCHANGED <<scope, mode, appCounter, generated, app, created, initFailed, sends,
                   deletes, sendResult, pending, phase, parsed, config, request,
                   codecVars, procVars, bodyVars>>

\* The finally block has nothing to wait for: the cleanup returned at once
\* because no app was created (part_004 62).  The call settles and its caller
\* resumes.
SettleWithoutDelete(r) ==
    /\ pc[r] = "cleanup"
    /\ ~inflight[r] \/ ~AwaitsCleanup
    /\ Finish(r, CleanupCompletion(pending[r], TRUE))
    /\ UNCHANGED <<scope, mode, appCounter, generated, registry, app, created, initFailed,
                   sends, deletes, inflight, delResult, sendResult, pending, phase,
                   parsed, config, request, codecVars, procVars, bodyVars>>

Next ==
    \/ \E r \in Reqs : Route(r)
    \/ \E r \in Reqs : BodyParsed(r)
    \/ \E r \in Reqs : LibSendNotification(r)
    \/ \E r \in Reqs : LibSendBatch(r)
    \/ \E r \in Reqs : SendSettles(r)
    \/ \E r \in Reqs : DeleteSettles(r)
    \/ \E r \in Reqs : SettleWithoutDelete(r)

Spec       == Init /\ [][Next]_vars
SpecSingle == InitSingle /\ [][Next]_vars

\* Every await is resumed once its promise has settled, and the promises of
\* the provider's send and of deleteApp are taken to settle; the promise of
\* parseRequestBody settles by its own 30 s timer at the latest (part_002
\* 106-108).
Fairness ==
    \A r \in Reqs :
        /\ WF_vars(BodyParsed(r))
        /\ WF_vars(SendSettles(r))
        /\ WF_vars(DeleteSettles(r))
        /\ WF_vars(SettleWithoutDelete(r))
SpecLive == InitSingle /\ [][Next]_vars /\ Fairness

\* ------------------------------------------------- the legacy server.js
\* The process exits at startup when SECRET_KEY is missing (server.js 24-31).
Running == ~Missing(config.secretKey)

InitLegacy ==
    /\ scope = "legacy"
    /\ \E key \in EnvKeys : config = LoadConfiguration(key, "production")
    /\ InitState

\* handleRequest to the await of parseRequestBody (server.js 179-204).
LegacyRoute(r) ==
    /\ Running
    /\ MayStart(r)
    /\ \E method \in Methods, pathname \in Pick(Pathnames, {"/sendNotification"}) :
        LET parses == method = "POST" /\ pathname = "/sendNotification"
            answer == IF method = "OPTIONS" THEN Response(200, <<>>, <<>>, "")
                      ELSE Response(404, <<"Not Found. Use POST /sendNotification">>, <<>>, "")
        IN  /\ mode' = [mode EXCEPT ![r] = "legacy"]
            /\ pc' = [pc EXCEPT ![r] = IF parses THEN "parsing" ELSE "done"]
            /\ delivered' = [delivered EXCEPT ![r] = IF parses THEN @ ELSE @ \o Written(answer)]
            /\ request' = [request EXCEPT ![r] = [method |-> method, pathname |-> pathname]]
    /\ UNCHANGED <<scope, phase, parsed, config, codecVars, procVars, bodyVars>>
    /\ UNCHANGED svcVars

\* parseRequestBody settles and handleRequest runs on to its answer or to the
\* await of the provider send (server.js 204-248, 74-103).
LegacyBodyParsed(r) ==
    /\ pc[r] = "parsing"
    /\ \E parse \in Pick(ParseOutcomes, FewParseOutcomes) :
        /\ parsed' = [parsed EXCEPT ![r] = parse]
        /\ Enter(r, "legacy", LegacyPlan(parse, config.secretKey), TRUE)
    /\ UNCHANGED <<config, request, codecVars, procVars, bodyVars>>

NextLegacy ==
    \/ \E r \in Reqs : LegacyRoute(r)
    \/ \E r \in Reqs : LegacyBodyParsed(r)
    \/ \E r \in Reqs : SendSettles(r)
    \/ \E r \in Reqs : DeleteSettles(r)
    \/ \E r \in Reqs : SettleWithoutDelete(r)

SpecLegacy == InitLegacy /\ [][NextLegacy]_vars

\* ------------------------------------------------ the codec, used directly
\* encryptServiceAccount and decryptServiceAccount of the library (part_004
\* 412-424) hand their arguments to encrypt and decrypt.  A ciphertext may be
\* changed on its way from one to the other.
MaxOps == 3

\* A credential with a property holding undefined is not JSON-serializable.
SparseCred == Cred(Str(ServiceAccountType), Undefined, Str(<<"-", PemMarker, "-">>), Email)
CodecData  ==
    {GoodCred, EmptyCred, SparseCred, Undefined, Str(<<"5">>),
     Str(<<"\"", "p", "\"">>), Str(<<"p">>), Str(<<>>), Num(5), Null}
Entropy    == {1, 2}

Op(op, data, key, effect, result) ==
    [op |-> op, data |-> data, key |-> key, effect |-> effect, result |-> result]

\* The ciphertexts encrypt has returned.
Produced == {ops[i].result.value : i \in {j \in DOMAIN ops : ops[j].op = "encrypt" /\ ops[j].result.ok}}
Changed  == {ops[i].result.value : i \in {j \in DOMAIN ops : ops[j].op = "tamper"}}

\* One byte of a ciphertext is flipped.  The block it lies in deciphers to
\* sixteen unpredictable bytes and one byte of the next block changes: the
\* padding check of decipher.final fails, or JSON.parse rejects the text, or,
\* when the changed bytes fall inside a string of the document, the text
\* still parses, with that string changed.
TamperEffects == {"padding", "unparsable", "altered"}
Garbled(v) ==
    IF v.t = "object" /\ Field(v, "private_key").t = "string"
    THEN Obj([v.f EXCEPT !["private_key"] = Str(Append(@.s, "?"))])
    ELSE v
CanTake(blob, effect) ==
    effect = "altered" => (blob.body.text.json /\ Garbled(blob.body.text.v) # blob.body.text.v)
Tampered(blob, effect) ==
    CASE effect = "padding"    -> [blob EXCEPT !.body.cipher = FALSE]
      [] effect = "unparsable" -> [blob EXCEPT !.body.text = BadJson]
      [] effect = "altered"    -> [blob EXCEPT !.body.text = JsonText(Garbled(@.v))]

InitCodec ==
    /\ scope = "codec"
    /\ config = LoadConfiguration(SecretKey, "production")
    /\ InitState

EncryptCall ==
    /\ Len(ops) < MaxOps
    /\ \E data \in CodecData, key \in Keys, entropy \in Entropy :
        ops' = Append(ops, Op("encrypt", data, key, "", encrypt(data, key, entropy)))
    /\ UNCHANGED <<scope, pc, mode, phase, parsed, delivered, config, request, procVars, bodyVars>>
    /\ UNCHANGED svcVars

DecryptCall ==
    /\ Len(ops) < MaxOps
    /\ \E data \in Produced \cup Changed \cup {Str(<<"s">>), Num(5)}, key \in Keys :
        ops' = Append(ops, Op("decrypt", data, key, "", decrypt(data, key)))
    /\ UNCHANGED <<scope, pc, mode, phase, parsed, delivered, config, request, procVars, bodyVars>>
    /\ UNCHANGED svcVars

Tamper ==
    /\ Len(ops) < MaxOps
    /\ \E blob \in Produced, effect \in TamperEffects :
        /\ CanTake(blob, effect)
        /\ ops' = Append(ops, Op("tamper", blob, "", effect,
                                 [ok |-> TRUE, value |-> Tampered(blob, effect), message |-> <<>>]))
    /\ UNCHANGED <<scope, pc, mode, phase, parsed, delivered, config, request, procVars, bodyVars>>
    /\ UNCHANGED svcVars

NextCodec == EncryptCall \/ DecryptCall \/ Tamper

SpecCodec == InitCodec /\ [][NextCodec]_vars

\* -------------------------------- HttpUtils.parseRequestBody (part_002)
MaxChunks == 3
MaxSize   == 1048576

\* A chunk of the request stream: its length and what it holds.
Chunk(len, text) == [len |-> len, text |-> text]
Chunks ==
    {Chunk(1, "{"), Chunk(1, "}"), Chunk(1, "x"), Chunk(1, " "), Chunk(MaxSize, " ")}

RECURSIVE BodyLength(_)
BodyLength(body) == IF body = <<>> THEN 0 ELSE body[1].len + BodyLength(Tail(body))

\* JSON.parse(body): of the texts the chunks hold only "{}", white space
\* around and inside it allowed, is a JSON document.
IsSpace(c) == c.text = " "
IsInk(c) == ~IsSpace(c)
ParseBody(body) ==
    IF [i \in DOMAIN SelectSeq(body, IsInk) |-> SelectSeq(body, IsInk)[i].text] = <<"{", "}">>
    THEN Returned(EmptyCred)
    ELSE Thrown(Err("", <<"Invalid", "JSON", "in", "request", "body">>))

TooLarge     == Thrown(Err("", <<"Request", "payload", "too", "large">>))
EmptyBody    == Thrown(Err("", <<"Empty", "request", "body">>))
TimedOut     == Thrown(Err("", <<"Request", "timeout">>))
StreamError  == Thrown(Err("ECONNRESET", <<"aborted">>))

\* resolve and reject of the promise (part_002 66): only the first call
\* settles it.
SettleLast(current, completion) == completion
Settle(current, completion) == IF current.kind = "none" THEN completion ELSE current
Call(u, completion) ==
    [u EXCEPT !.promise = Settle(@, completion),
              !.calls = @ + 1,
              !.first = IF u.calls = 0 THEN completion ELSE @]
\* clearTimeout (part_002 112-113)
Cleared(timer) == IF timer = "armed" THEN "cleared" ELSE timer

InitBody ==
    /\ scope = "body"
    /\ config = LoadConfiguration(SecretKey, "production")
    /\ InitState

\* 'data' (part_002 71-81)
Data ==
    /\ ~upload.ended /\ ~upload.errored /\ upload.chunks < MaxChunks
    /\ \E chunk \in Chunks :
        LET size == upload.size + chunk.len
            u    == [upload EXCEPT !.size = size, !.chunks = @ + 1]
        IN  upload' = IF size > MaxSize THEN Call(u, TooLarge)
                      ELSE [u EXCEPT !.body = Append(@, chunk)]
    /\ UNCHANGED <<scope, reqVars, codecVars, procVars>>
    /\ UNCHANGED svcVars

\* 'end': the parsing listener, then the one that clears the timer
\* (part_002 83-100, 112).
End ==
    /\ ~upload.ended
    /\ LET completion == IF BodyLength(upload.body) = 0 THEN EmptyBody
                          ELSE ParseBody(upload.body)
       IN  upload' = [Call(upload, completion) EXCEPT !.ended = TRUE, !.timer = Cleared(@)]
    /\ UNCHANGED <<scope, reqVars, codecVars, procVars>>
    /\ UNCHANGED svcVars

\* 'error' (part_002 102-105, 113)
StreamFails ==
    /\ ~upload.errored
    /\ upload' = [Call(upload, StreamError) EXCEPT !.errored = TRUE, !.timer = Cleared(@)]
    /\ UNCHANGED <<scope, reqVars, codecVars, procVars>>
    /\ UNCHANGED svcVars

\* The 30 s timer fires (part_002 108-110).
TimerFires ==
    /\ upload.timer = "armed"
    /\ upload' = [Call(upload, TimedOut) EXCEPT !.timer = "fired"]
    /\ UNCHANGED <<scope, reqVars, codecVars, procVars>>
    /\ UNCHANGED svcVars

NextBody == Data \/ End \/ StreamFails \/ TimerFires

SpecBody == InitBody /\ [][NextBody]_vars

\* ------------------------- FirebaseNotificationServer shutdown (part_000)
MaxEvents == 3

\* The forced-exit timer _gracefulShutdown sets beside server.close
\* (part_000 178-181).
ForcedExitNotArmed == FALSE
ForcedExitArmed == TRUE

\* _gracefulShutdown(exitCode) up to its return (part_000 154-185), on the
\* server start() has created; `live` are the requests whose app is live.
gracefulShutdownUnguarded(p, exitCode, live) ==
    [p EXCEPT !.isShuttingDown = TRUE, !.exitArg = exitCode,
              !.closeCalls = @ + 1, !.closing = TRUE,
              !.forceTimers = IF ForcedExitArmed THEN @ + 1 ELSE @,
              !.forceArmed = ForcedExitArmed,
              !.sessions = live]
gracefulShutdown(p, exitCode, live) ==
    IF p.isShuttingDown THEN p
    ELSE [p EXCEPT !.isShuttingDown = TRUE, !.exitArg = exitCode,
                   !.closeCalls = @ + 1, !.closing = TRUE,
                   !.forceTimers = IF ForcedExitArmed THEN @ + 1 ELSE @,
                   !.forceArmed = ForcedExitArmed,
                   !.sessions = live]

\* The requests whose app is initialized and whose teardown has not been
\* called.
Live == {r \in Reqs : created[r] # NoApp /\ deletes[r] = <<>>}
\* A request holds its connection from route to its response.
ConnectionsOpen == \E r \in Reqs : pc[r] \notin {"idle", "done"}

InitShutdown ==
    /\ scope = "shutdown"
    /\ config = LoadConfiguration(SecretKey, "production")
    /\ InitState

\* SIGINT or SIGTERM (part_000 123-128).
Signal ==
    /\ ~proc.exited /\ proc.events < MaxEvents
    /\ proc' = [gracefulShutdown(proc, 0, Live) EXCEPT !.events = @ + 1]
    /\ UNCHANGED <<scope, reqVars, codecVars, bodyVars>>
    /\ UNCHANGED svcVars

\* uncaughtException or unhandledRejection (part_000 131-146).
FatalError ==
    /\ ~proc.exited /\ proc.events < MaxEvents
    /\ proc' = [gracefulShutdown(proc, 1, Live) EXCEPT !.events = @ + 1, !.fatal = TRUE]
    /\ UNCHANGED <<scope, reqVars, codecVars, bodyVars>>
    /\ UNCHANGED svcVars

\* The callback of server.close runs, once no connection is open, and sets
\* the 1 s timer (part_000 164-176).
CloseCompletes ==
    /\ ~proc.exited /\ proc.closing /\ ~ConnectionsOpen
    /\ proc' = [proc EXCEPT !.closing = FALSE, !.graceArmed = TRUE]
    /\ UNCHANGED <<scope, reqVars, codecVars, bodyVars>>
    /\ UNCHANGED svcVars

\* The 1 s timer fires: process.exit(exitCode) (part_000 172-175).
GraceTimerFires ==
    /\ ~proc.exited /\ proc.graceArmed
    /\ proc' = [proc EXCEPT !.exited = TRUE, !.exitCode = proc.exitArg]
    /\ UNCHANGED <<scope, reqVars, codecVars, bodyVars>>
    /\ UNCHANGED svcVars

\* The 10 s timer fires: process.exit(1) (part_000 178-181).
ForceTimerFires ==
    /\ ~proc.exited /\ proc.forceArmed
    /\ proc' = [proc EXCEPT !.exited = TRUE, !.exitCode = 1]
    /\ UNCHANGED <<scope, reqVars, codecVars, bodyVars>>
    /\ UNCHANGED svcVars

\* The server takes requests until server.close, and the process handles
\* them until it exits.
NextShutdown ==
    \/ \E r \in Reqs : ~proc.isShuttingDown /\ Route(r)
    \/ \E r \in Reqs : ~proc.exited /\ BodyParsed(r)
    \/ \E r \in Reqs : ~proc.exited /\ SendSettles(r)
    \/ \E r \in Reqs : ~proc.exited /\ DeleteSettles(r)
    \/ \E r \in Reqs : ~proc.exited /\ SettleWithoutDelete(r)
    \/ Signal
    \/ FatalError
    \/ CloseCompletes
    \/ GraceTimerFires
    \/ ForceTimerFires

SpecShutdown == InitShutdown /\ [][NextShutdown]_vars

\* Timers that were set fire.
SpecShutdownLive ==
    InitShutdown /\ [][NextShutdown]_vars /\ WF_vars(GraceTimerFires) /\ WF_vars(ForceTimerFires)

\* ================================================================== claims
IsSendNotification(r) == mode[r] \in {"http", "lib"}
Initialized(r) == created[r] # NoApp

\* C1: in sendNotification, once the temporary app was initialized, deleteApp
\* is called on that app exactly once before the call settles, whether the
\* send resolved or rejected: never before the send settled, and at the end
\* neither zero times nor twice.
C1_DeleteExactlyOnce ==
    \A r \in Reqs :
        (IsSendNotification(r) /\ Initialized(r)) =>
            /\ pc[r] = "sending" => deletes[r] = <<>>
            /\ pc[r] \in {"cleanup", "done"} => deletes[r] = <<created[r]>>

C1_Witness ==
    \E r1, r2 \in Reqs :
        /\ IsSendNotification(r1) /\ IsSendNotification(r2)
        /\ pc[r1] = "done" /\ pc[r2] = "done"
        /\ sendResult[r1].kind = "return" /\ sendResult[r2].kind = "throw"
        /\ deletes[r1] = <<created[r1]>> /\ deletes[r2] = <<created[r2]>>

\* The completion sendNotification has when the send settled as `res` and the
\* cleanup succeeded.
OutcomeOfSend(res) ==
    IF res.kind = "return" THEN Returned(res.value)
    ELSE Thrown(ClassifySendError(res.error))

\* C2: when deleteApp rejects during cleanup, sendNotification settles exactly
\* as it would have with a successful cleanup: with the success result when
\* the send succeeded, with the send's failure when it failed; the cleanup
\* error never reaches the caller.
C2_CleanupFailureIsolated ==
    \A r \in Reqs :
        (IsSendNotification(r) /\ pc[r] = "done" /\ delResult[r] = "failed") =>
            /\ outcome[r] = OutcomeOfSend(sendResult[r])
            /\ Len(delivered[r]) = 1
            /\ mode[r] = "lib" =>
                   delivered[r][1].how = (IF sendResult[r].kind = "return"
                                          THEN "return" ELSE "throw")
            /\ mode[r] = "http" =>
                   (delivered[r][1].status = 200) = (sendResult[r].kind = "return")

C2_Witness ==
    \E r1, r2 \in Reqs :
        /\ IsSendNotification(r1) /\ IsSendNotification(r2)
        /\ pc[r1] = "done" /\ pc[r2] = "done"
        /\ delResult[r1] = "failed" /\ delResult[r2] = "failed"
        /\ outcome[r1].kind = "return" /\ outcome[r2].kind = "throw"
        /\ outcome[r2].error.message = TokenNotRegisteredMsg

C4_OutcomeAfterCleanup ==
    \A r \in Reqs :
        (IsSendNotification(r) /\ Initialized(r)
            /\ (outcome[r].kind # "none" \/ delivered[r] # <<>>)) =>
            /\ deletes[r] = <<created[r]>>
            /\ ~inflight[r]
            /\ delResult[r] # "none"

C4_Witness ==
    \E r1, r2 \in Reqs :
        /\ mode[r1] = "http" /\ mode[r2] = "http"
        /\ Initialized(r1) /\ Initialized(r2)
        /\ Len(delivered[r1]) = 1 /\ delivered[r1][1].status = 200
        /\ delResult[r1] = "failed"
        /\ Len(delivered[r2]) = 1 /\ delivered[r2][1].status = 400
        /\ delResult[r2] = "ok"

\* C5: when the app initialization of sendNotification fails, no teardown is
\* attempted: deleteApp is never called for that request, and no app was
\* created.
C5_NoTeardownAfterInitFailure ==
    \A r \in Reqs :
        (IsSendNotification(r) /\ initFailed[r]) =>
            /\ deletes[r] = <<>>
            /\ ~inflight[r]
            /\ delResult[r] = "none"
            /\ ~Initialized(r)

C5_Witness ==
    \E r \in Reqs :
        /\ IsSendNotification(r) /\ initFailed[r] /\ pc[r] = "done"
        /\ outcome[r].kind = "throw"
        /\ deletes[r] = <<>>

\* The failure kind a caller can tell from the error sendNotification throws:
\* one of the three fixed messages, or the fixed text the message begins with.
StartsWith(s, prefix) ==
    Len(s) >= Len(prefix) /\ SubSeq(s, 1, Len(prefix)) = prefix
KindOf(message) ==
    IF message = TokenNotRegisteredMsg THEN "token-not-registered"
    ELSE IF message = InvalidTokenMsg THEN "invalid-token-format"
    ELSE IF message = AuthFailedMsg THEN "authentication-error"
    ELSE IF StartsWith(message, MessagingErrorPrefix) THEN "generic-provider-error"
    ELSE IF StartsWith(message, InitFailedPrefix) THEN "session-init-error"
    ELSE "other"
ProviderKinds ==
    {"token-not-registered", "invalid-token-format", "authentication-error",
     "generic-provider-error"}

\* C6: a failure to initialize the app is reported to the caller of
\* sendNotification as a session-initialization failure, a kind distinct from
\* every provider dispatch failure kind.
C6_InitFailureHasItsOwnKind ==
    \A r \in Reqs :
        (IsSendNotification(r) /\ initFailed[r] /\ outcome[r].kind = "throw") =>
            /\ KindOf(outcome[r].error.message) = "session-init-error"
            /\ KindOf(outcome[r].error.message) \notin ProviderKinds

\* C7: any two app names _generateAppName produces in one process are
\* distinct, whatever the interleaving of sendNotification and
\* sendBatchNotifications calls, also when their timestamps and random
\* suffixes coincide: n generations have produced n different names.
C7_AppNamesDistinct == Cardinality(generated) = appCounter

\* Two names made in the same millisecond with the same random suffix, one of
\* them by a batch call.
C7_Witness ==
    \E r1, r2 \in Reqs :
        /\ mode[r1] = "batch" /\ IsSendNotification(r2)
        /\ Initialized(r1) /\ Initialized(r2)
        /\ created[r1][2] = created[r2][2]
        /\ SubSeq(created[r1], 5, Len(created[r1])) = SubSeq(created[r2], 5, Len(created[r2]))
        /\ created[r1] # created[r2]
        /\ appCounter = 2

\* C8: under any interleaving of concurrent calls, each call sends through
\* and deletes only the app it created itself, no two calls own the same
\* app, and no send is in flight on an app that has been deleted.
C8_CallsOwnTheirApp ==
    \A r \in Reqs :
        /\ \A i \in DOMAIN sends[r] : sends[r][i] = created[r] /\ Initialized(r)
        /\ \A i \in DOMAIN deletes[r] : deletes[r][i] = created[r] /\ Initialized(r)
        /\ pc[r] = "sending" => created[r] \in registry
        /\ \A q \in Reqs : (q # r /\ Initialized(r)) => created[q] # created[r]

\* One call has finished and deleted its app while another call, started
\* before it, still waits for its send.
C8_Witness ==
    \E r1, r2 \in Reqs :
        /\ r1 < r2
        /\ pc[r1] = "sending" /\ created[r1] \in registry
        /\ pc[r2] = "done" /\ Initialized(r2)
        /\ deletes[r2] = <<created[r2]>> /\ delResult[r2] = "ok"
        /\ created[r2] \notin registry

\* C9: when the decryption of firebaseConfig fails, the request ends at that
\* phase: the handler answers 400 'Failed to decrypt Firebase configuration'
\* (the library throws the decryption error), and neither credential
\* validation nor app initialization nor a provider send is performed.
C9_DecryptFailureStops ==
    \A r \in Reqs :
        phase[r].decrypted = "failed" =>
            /\ pc[r] = "done"
            /\ ~phase[r].validated
            /\ ~Initialized(r) /\ ~initFailed[r]
            /\ sends[r] = <<>> /\ deletes[r] = <<>>
            /\ Len(delivered[r]) = 1
            /\ mode[r] = "http" =>
                   delivered[r][1] = Response(400, DecryptFailedText, <<>>, "")
            /\ mode[r] # "http" =>
                   /\ delivered[r][1].how = "throw"
                   /\ StartsWith(delivered[r][1].error, <<"Decryption", "failed:">>)

C9_Witness ==
    \E r \in Reqs :
        /\ mode[r] = "http" /\ phase[r].decrypted = "failed" /\ pc[r] = "done"
        /\ delivered[r] = <<Response(400, DecryptFailedText, <<>>, "")>>
        /\ appCounter = 0

\* The verdict of the validator on the credential the request decrypted.
Verdict(r) == validateServiceAccount(phase[r].cred)
Rejected(r) == phase[r].validated /\ ~Verdict(r).threw /\ ~Verdict(r).isValid

IsMember(list, x) == \E i \in DOMAIN list : list[i] = x

\* C10: when validateServiceAccount rejects the decrypted credential, the
\* request ends with an invalid-credential failure carrying the validator's
\* complete error list (HTTP 400 from the handler, a thrown 'Invalid service
\* account: ...' error from the library), no app is initialized and no send
\* is attempted; a credential of type 'user_account' yields a failure that
\* lists the type mismatch.
C10_InvalidCredentialStops ==
    \A r \in Reqs :
        Rejected(r) =>
            /\ pc[r] = "done"
            /\ ~Initialized(r) /\ ~initFailed[r]
            /\ sends[r] = <<>> /\ deletes[r] = <<>>
            /\ Len(delivered[r]) = 1
            /\ delivered[r][1].errors = Verdict(r).errors
            /\ mode[r] = "http" =>
                   /\ delivered[r][1].status = 400
                   /\ delivered[r][1].error = InvalidAccountText
            /\ mode[r] # "http" =>
                   /\ delivered[r][1].how = "throw"
                   /\ delivered[r][1].error =
                          <<"Invalid service account: ">> \o Join(Verdict(r).errors)
            /\ Field(phase[r].cred, "type") = Str(<<"user_account">>) =>
                   IsMember(delivered[r][1].errors, InvalidTypeError)

C10_Witness ==
    \E r \in Reqs :
        /\ mode[r] = "http" /\ pc[r] = "done"
        /\ phase[r].cred = UserAccountCred
        /\ delivered[r] = <<Response(400, InvalidAccountText, <<InvalidTypeError>>, "")>>
        /\ appCounter = 0

\* The request reached the app initialization of the service.
ReachedInit(r) == Initialized(r) \/ initFailed[r]

\* The invariant of a decrypted credential.
IsServiceAccountType(c) == Field(c, "type") = Str(ServiceAccountType)
KeyHasPemMarker(c)      == KeyIncludesMarker(Field(c, "private_key"))
EmailHasShape(c)        == IsValidEmail(Field(c, "client_email"))
HasProjectId(c)         == Truthy(Field(c, "project_id"))
CredentialInvariant(c) ==
    IsServiceAccountType(c) /\ KeyHasPemMarker(c) /\ EmailHasShape(c) /\ HasProjectId(c)

\* C11: every credential that reaches the app initialization, through the
\* request handler or a library entry point, has type 'service_account', a
\* private_key containing the PEM marker, a client_email matching the e-mail
\* pattern and a non-empty project_id, and was validated before.
C11_InitOnlyOnValidCredential ==
    \A r \in Reqs :
        ReachedInit(r) =>
            /\ phase[r].decrypted = "ok"
            /\ phase[r].validated
            /\ CredentialInvariant(phase[r].cred)

C11_Witness ==
    \E r \in Reqs :
        /\ mode[r] = "batch" /\ Initialized(r) /\ pc[r] = "done"
        /\ phase[r].cred = GoodCred

\* C12: each request performs at most one app initialization and at most
\* one provider send; a failed send is not repeated.
C12_AtMostOneInitAndSend ==
    /\ \A r \in Reqs :
          /\ Len(sends[r]) <= 1
          /\ ~(Initialized(r) /\ initFailed[r])
          /\ sendResult[r].kind = "throw" => (pc[r] # "sending" /\ Len(sends[r]) = 1)
    /\ appCounter = Cardinality({r \in Reqs : ReachedInit(r)})

C12_Witness ==
    \E r \in Reqs :
        /\ mode[r] = "http" /\ pc[r] = "done"
        /\ sendResult[r].kind = "throw"
        /\ sends[r] = <<created[r]>>
        /\ delivered[r][1].status = 400
        /\ appCounter = 1

\* The failure kind the provider's error code stands for.
KindForCode(code) ==
    IF code = "messaging/registration-token-not-registered" THEN "token-not-registered"
    ELSE IF code = "messaging/invalid-registration-token" THEN "invalid-token-format"
    ELSE IF code = "messaging/authentication-error" THEN "authentication-error"
    ELSE "generic-provider-error"

\* C13: when the provider send fails, sendNotification reports exactly the
\* one of the four kinds that the error's code stands for, whatever the
\* error's message says.
C13_KindFollowsCode ==
    \A r \in Reqs :
        (IsSendNotification(r) /\ sendResult[r].kind = "throw"
            /\ outcome[r].kind # "none") =>
            /\ outcome[r].kind = "throw"
            /\ KindOf(outcome[r].error.message) = KindForCode(sendResult[r].error.code)
            /\ KindOf(outcome[r].error.message) \in ProviderKinds

\* An unrecognised code whose message is the text of a recognised kind is
\* still reported as a generic provider error.
C13_Witness ==
    \E r \in Reqs :
        /\ mode[r] = "lib" /\ pc[r] = "done"
        /\ sendResult[r].error = Err("messaging/internal-error", TokenNotRegisteredMsg)
        /\ outcome[r].error.message = MessagingErrorPrefix \o TokenNotRegisteredMsg
        /\ KindOf(outcome[r].error.message) = "generic-provider-error"

\* The provider's send was rejected with the code `code`.
SendFailedWith(r, code) ==
    sendResult[r].kind = "throw" /\ sendResult[r].error.code = code

\* C14: a dispatch that fails with the provider's authentication error is
\* answered with HTTP status 401.
C14_AuthErrorIs401 ==
    \A r \in Reqs :
        (mode[r] = "http" /\ pc[r] = "done"
            /\ SendFailedWith(r, "messaging/authentication-error")) =>
            /\ Len(delivered[r]) = 1
            /\ delivered[r][1].status = 401

C14_Witness ==
    \E r \in Reqs :
        /\ mode[r] = "http" /\ pc[r] = "done"
        /\ sendResult[r].error =
               Err("messaging/authentication-error",
                   <<"Request", "is", "missing", "a", "valid", "token">>)
        /\ delivered[r] = <<Response(401, <<"Firebase authentication failed">>, <<>>, "")>>

RecognisedCodes ==
    {"messaging/registration-token-not-registered",
     "messaging/invalid-registration-token",
     "messaging/authentication-error"}

\* The request failed in a way that is neither a recognised provider failure
\* nor a rejection of its input: an unrecognised provider code, a failed app
\* initialization, or an exception of the validator inside the handler.
InternalFailure(r) ==
    \/ sendResult[r].kind = "throw" /\ sendResult[r].error.code \notin RecognisedCodes
    \/ initFailed[r]
    \/ phase[r].validated /\ validateServiceAccount(phase[r].cred).threw

\* C15: every unrecognised or internal failure is answered with HTTP status
\* 500, whatever the text of the underlying error.
C15_InternalFailureIs500 ==
    \A r \in Reqs :
        (mode[r] = "http" /\ pc[r] = "done" /\ InternalFailure(r)) =>
            /\ Len(delivered[r]) = 1
            /\ delivered[r][1].status = 500

\* parseRequestBody rejected the body as empty or as no JSON, or
\* validatePayload rejected the parsed body.
EmptyBodyText   == <<"Empty", "request", "body">>
InvalidJsonText == <<"Invalid", "JSON", "in", "request", "body">>
MalformedPayload(r) ==
    IF parsed[r].ok THEN ~validatePayload(parsed[r].value).isValid
    ELSE parsed[r].message \in {EmptyBodyText, InvalidJsonText}

\* C16: a POST /sendNotification whose payload is malformed (empty body, no
\* JSON, or JSON with missing or non-string required fields) is answered
\* with HTTP status 400.
C16_MalformedPayloadIs400 ==
    \A r \in Reqs :
        (mode[r] = "http" /\ pc[r] = "done" /\ parsed[r] # NotParsed
            /\ MalformedPayload(r)) =>
            /\ Len(delivered[r]) = 1
            /\ delivered[r][1].status = 400

\* Every phase of the request succeeded up to and including the send.
AllSucceeded(r) == mode[r] = "http" /\ pc[r] = "done" /\ sendResult[r].kind = "return"

\* The 200 answer carrying the provider's message id.
AnsweredWithId(r) ==
    /\ delivered[r] = <<Response(200, SuccessText, <<>>, sendResult[r].value)>>
    /\ sendResult[r].value \in MessageIds
    /\ delivered[r][1].messageId # ""

ReportedErrors(r) == IF ReachedInit(r) THEN <<>> ELSE delivered[r][1].errors

\* The validator ran its field rules on the credential of request r.
FieldRulesRan(r) ==
    /\ phase[r].validated /\ pc[r] = "done"
    /\ phase[r].cred.t \in {"object", "array"}
    /\ ~(Truthy(Field(phase[r].cred, "private_key"))
           /\ ~HasIncludes(Field(phase[r].cred, "private_key")))

Count(list, x) == Cardinality({i \in DOMAIN list : list[i] = x})

NotStructured(v) == v.t \in {"undefined", "null", "number", "string", "text", "boolean"}

\* C19: validateServiceAccount applied to a value that is not a non-null
\* structured object reports isValid false with exactly one error, the
\* not-an-object error, and evaluates no field rule; the request ends there.
C19_NonObjectShortCircuits ==
    /\ validateServiceAccount(Undefined) =
           [threw |-> FALSE, isValid |-> FALSE, errors |-> <<NotObjectError>>]
    /\ \A r \in Reqs :
          (phase[r].validated /\ NotStructured(phase[r].cred)) =>
              /\ pc[r] = "done"
              /\ ~ReachedInit(r)
              /\ Len(delivered[r]) = 1
              /\ delivered[r][1].errors = <<NotObjectError>>
              /\ mode[r] = "http" => delivered[r][1].status = 400

C19_Witness ==
    \E r \in Reqs :
        /\ mode[r] = "http" /\ pc[r] = "done"
        /\ phase[r].validated /\ phase[r].cred = Null
        /\ delivered[r] = <<Response(400, InvalidAccountText, <<NotObjectError>>, "")>>

\* C20: for every value decrypt can return, validateServiceAccount returns a
\* result whose isValid is true exactly when its error list is empty, and
\* never throws.
C20_ValidatorTotal ==
    \A r \in Reqs :
        phase[r].validated =>
            /\ ~validateServiceAccount(phase[r].cred).threw
            /\ validateServiceAccount(phase[r].cred).isValid
                   = (validateServiceAccount(phase[r].cred).errors = <<>>)
            /\ mode[r] = "http" => (ReachedInit(r) \/ delivered[r][1].status = 400)

\* The secret key counts as not configured when _validateConfiguration would
\* list it as missing.
KeyNotConfigured == Missing(config.secretKey)

\* C23: when SECRET_KEY is not configured, the absence is detected at startup
\* and normal operation is prevented: no HTTP request ever reaches Firebase
\* app initialization or a provider send.
C23_NoKeyNoOperation ==
    KeyNotConfigured =>
        /\ config.warned
        /\ \A r \in Reqs : mode[r] = "http" => (~ReachedInit(r) /\ sends[r] = <<>>)

\* The texts the server itself words: those of the handler, of the router, of
\* the endpoint validator and the fixed texts of the notification service.
MethodNotAllowedTexts ==
    {<<"Method ", m, " not allowed. Use POST only.">> : m \in Methods}
ServerMessages ==
    {ValidationFailedText, DecryptFailedText, InvalidAccountText, NotFoundText,
     <<"Not Found. Use POST /sendNotification">>, <<"Internal server error">>,
     <<"Firebase authentication failed">>, <<"Request timeout">>,
     TokenNotRegisteredMsg, InvalidTokenMsg, AuthFailedMsg}
        \cup MethodNotAllowedTexts
IsErrorResponse(r) ==
    mode[r] = "http" /\ pc[r] = "done" /\ delivered[r][1].status >= 400

\* C24: the error text of every HTTP error response is one of the server's own
\* fixed messages; the raw message of a provider or internal exception is
\* never copied into the response.
C24_ErrorsSanitized ==
    \A r \in Reqs :
        IsErrorResponse(r) =>
            /\ delivered[r][1].error \in ServerMessages
            /\ sendResult[r].kind = "throw" =>
                   delivered[r][1].error # MessagingErrorPrefix \o sendResult[r].error.message

NeitherPostNorOptions(r) ==
    mode[r] = "http" /\ request[r] # NoRequest /\ request[r].method \notin {"POST", "OPTIONS"}
NeverParsed(r) == parsed[r] = NotParsed /\ phase[r] = NoPhase
AnsweredMethodNotAllowed(r) ==
    /\ pc[r] = "done"
    /\ Len(delivered[r]) = 1
    /\ delivered[r][1].status = 405

\* C25 as stated: every request whose method is neither POST nor OPTIONS is
\* answered with 405, whatever its path, and its body is never parsed or
\* decrypted.
C25_NonPostIs405 ==
    \A r \in Reqs :
        NeitherPostNorOptions(r) => (AnsweredMethodNotAllowed(r) /\ NeverParsed(r))

\* C25, amended: a request whose method is neither POST nor OPTIONS never has
\* its body parsed or decrypted, and is answered at once: with 405 on
\* /sendNotification, with the health report on /health and with 404 on any
\* other path.
C25_NonPostNeverParsed ==
    \A r \in Reqs :
        NeitherPostNorOptions(r) =>
            /\ NeverParsed(r)
            /\ pc[r] = "done"
            /\ Len(delivered[r]) = 1
            /\ delivered[r][1].status =
                   (IF request[r].pathname = "/health" THEN 200
                    ELSE IF request[r].pathname = "/sendNotification" THEN 405
                    ELSE 404)

C25_Witness ==
    \E r \in Reqs :
        /\ NeitherPostNorOptions(r)
        /\ request[r].pathname = "/sendNotification"
        /\ AnsweredMethodNotAllowed(r)
        /\ NeverParsed(r)

Generations == Cardinality({r \in Reqs : ReachedInit(r)})

\* C28: appCounter starts at 0, grows by exactly 1 with every _generateAppName
\* call, whether or not the initialization that follows succeeds, never
\* decreases, and after n name generations equals n.
C28_CounterCountsGenerations ==
    /\ [](appCounter = Generations)
    /\ [][appCounter' = appCounter \/ appCounter' = appCounter + 1]_vars

C28_Witness ==
    /\ appCounter = 2
    /\ \E r \in Reqs : initFailed[r]
    /\ \E r \in Reqs : Initialized(r)

\* The characters of a session identifier after its last "-".
SuffixOf(name) ==
    LET dashes == {i \in DOMAIN name : name[i] = "-"}
        last   == CHOOSE i \in dashes : \A j \in dashes : j <= i
    IN  SubSeq(name, last + 1, Len(name))

\* C29: every session identifier _generateAppName produces ends with a random
\* alphanumeric suffix of at least 5 characters.
C29_SuffixAtLeastFive ==
    \A name \in generated : Len(SuffixOf(name)) >= 5

\* A value JSON can carry whole: nothing in it holds undefined.
RECURSIVE JsonSerializable(_)
JsonSerializable(v) ==
    CASE v.t = "undefined" -> FALSE
      [] v.t = "object"    -> \A k \in DOMAIN v.f : JsonSerializable(v.f[k])
      [] v.t = "array"     -> \A i \in DOMAIN v.a : JsonSerializable(v.a[i])
      [] OTHER             -> TRUE
IsEncrypt(i) == i \in DOMAIN ops /\ ops[i].op = "encrypt"
IsDecrypt(i) == i \in DOMAIN ops /\ ops[i].op = "decrypt"
IsTamper(i)  == i \in DOMAIN ops /\ ops[i].op = "tamper"
\* decrypt call j is given what encrypt call i returned, and the same key.
DecryptsOutputOf(j, i) ==
    /\ IsEncrypt(i) /\ IsDecrypt(j) /\ i < j
    /\ ops[i].result.ok
    /\ ops[j].data = ops[i].result.value
    /\ ops[j].key = ops[i].key

\* C21: for every JSON-serializable credential object c and key k,
\* decrypt(encrypt(c, k), k) equals c.
C21_RoundTrip ==
    \A i, j \in DOMAIN ops :
        (/\ IsEncrypt(i) /\ ops[i].data.t = "object" /\ JsonSerializable(ops[i].data)
         /\ IsDecrypt(j) /\ i < j
         /\ ops[j].data = ops[i].result.value /\ ops[j].key = ops[i].key) =>
            /\ ops[i].result.ok
            /\ ops[j].result.ok
            /\ ops[j].result.value = ops[i].data

C21_Witness ==
    \E i, j \in DOMAIN ops :
        /\ DecryptsOutputOf(j, i)
        /\ ops[i].data = GoodCred
        /\ ops[j].result = [ok |-> TRUE, value |-> GoodCred, message |-> <<>>]

\* C22: every decryption failure is reported in the same way, whichever step
\* failed: any two failed calls of decrypt throw the same error.
C22_UniformDecryptFailure ==
    \A i, j \in DOMAIN ops :
        (IsDecrypt(i) /\ IsDecrypt(j) /\ ~ops[i].result.ok /\ ~ops[j].result.ok) =>
            ops[i].result.message = ops[j].result.message

\* C26: for the same value c and key k, two calls of encrypt(c, k) return the
\* same ciphertext.
C26_EncryptDeterministic ==
    \A i, j \in DOMAIN ops :
        (IsEncrypt(i) /\ IsEncrypt(j) /\ ops[i].data = ops[j].data /\ ops[i].key = ops[j].key) =>
            ops[i].result = ops[j].result

C26_Witness ==
    \E i, j \in DOMAIN ops :
        /\ i < j /\ IsEncrypt(i) /\ IsEncrypt(j)
        /\ ops[i].data = GoodCred /\ ops[j].data = GoodCred
        /\ ops[i].key = ops[j].key
        /\ ops[i].result.ok
        /\ ops[j].result.value = ops[i].result.value

\* C27: when one byte of a valid ciphertext is flipped, decrypt under the key
\* of the encryption fails with a decryption error; it never returns an
\* object different from the one that was encrypted.
C27_TamperSensitive ==
    \A i, t, j \in DOMAIN ops :
        (/\ IsEncrypt(i) /\ ops[i].result.ok
         /\ IsTamper(t) /\ ops[t].data = ops[i].result.value
         /\ IsDecrypt(j) /\ ops[j].data = ops[t].result.value /\ ops[j].key = ops[i].key) =>
            /\ ~ops[j].result.ok
            /\ StartsWith(ops[j].result.message, DecryptionFailed(<<>>))

\* C30: in the legacy server the app names generated for any two requests
\* are distinct, also when both are processed in the same millisecond: every
\* name generated is a new one, and no initializeApp fails because its name
\* is already in use.
C30_LegacyNamesDistinct ==
    /\ Cardinality(generated) = Generations
    /\ \A r \in Reqs :
          (mode[r] = "legacy" /\ initFailed[r]) => pending[r].error # DuplicateError

IsBatch(r) == mode[r] = "batch"

\* C31: sendBatchNotifications creates one app for the whole batch, issues
\* one sendAll call on it, and once the app was initialized calls its cleanup
\* exactly once on every path (sendAll resolves, sendAll rejects, building the
\* messages throws), when the try block has completed and not before; a
\* failure reaches the caller unchanged.
C31_BatchOneAppOneCleanup ==
    \A r \in Reqs :
        (IsBatch(r) /\ Initialized(r)) =>
            /\ ~initFailed[r]
            /\ sends[r] \in {<<>>, <<created[r]>>}
            /\ pc[r] = "sending" => (sends[r] = <<created[r]>> /\ deletes[r] = <<>>)
            /\ pc[r] \in {"cleanup", "done"} => deletes[r] = <<created[r]>>
            /\ (pc[r] = "done" /\ sendResult[r].kind = "throw") =>
                   /\ outcome[r] = Thrown(sendResult[r].error)
                   /\ delivered[r] = <<Settled("throw", sendResult[r].error.message, <<>>, "")>>
            /\ (pc[r] = "done" /\ sendResult[r].kind = "return") => outcome[r] = sendResult[r]
            /\ (pc[r] = "done" /\ sends[r] = <<>>) => outcome[r] = Thrown(BuildError)

C31_Witness ==
    \E r1, r2 \in Reqs :
        /\ IsBatch(r1) /\ Initialized(r1) /\ pc[r1] = "done"
        /\ sendResult[r1].kind = "throw"
        /\ outcome[r1] = Thrown(sendResult[r1].error)
        /\ deletes[r1] = <<created[r1]>>
        /\ IsBatch(r2) /\ Initialized(r2) /\ pc[r2] = "done"
        /\ sends[r2] = <<>> /\ deletes[r2] = <<created[r2]>>

\* The payload handleRequest goes on with once validatePayload has accepted
\* the parsed one.
PayloadAccepted(r) == mode[r] = "http" /\ phase[r].decrypted # "none"
UsedPayload(r) == sanitizePayload(parsed[r].value)

\* C32: the payload the request handler uses for decryption and dispatch,
\* after sanitizePayload has trimmed it, satisfies the validatePayload
\* constraints: token of at least 10 characters, title non-empty and of at
\* most 100, body non-empty and of at most 1000, firebaseConfig of at least 50.
C32_SanitizedPayloadValid ==
    \A r \in Reqs :
        PayloadAccepted(r) =>
            /\ Length(UsedPayload(r).token) >= MinTokenLen
            /\ Length(UsedPayload(r).title) >= 1
            /\ Length(UsedPayload(r).title) <= MaxTitleLen
            /\ Length(UsedPayload(r).body) >= 1
            /\ Length(UsedPayload(r).body) <= MaxBodyLen
            /\ Length(UsedPayload(r).firebaseConfig) >= MinConfigLen

\* C33: for every request passed to route exactly one HTTP response is
\* written, on every path: none while the request is being handled, one when
\* it is done, never two.
C33_ExactlyOneResponse ==
    \A r \in Reqs :
        mode[r] = "http" =>
            /\ Len(delivered[r]) <= 1
            /\ (pc[r] = "done") = (Len(delivered[r]) = 1)
            /\ \A i \in DOMAIN delivered[r] : delivered[r][i].how = "response"

C33_Witness ==
    \E r \in Reqs :
        /\ mode[r] = "http" /\ pc[r] = "done"
        /\ sendResult[r].kind = "throw" /\ delResult[r] = "failed"
        /\ Len(delivered[r]) = 1

\* C39: encrypt uses a string input as the text to encipher, without
\* JSON-encoding it: decrypt(encrypt(s, k), k) is what JSON.parse reads in s
\* (a number in "5", the string p in "\"p\"", never s itself) and fails with
\* a 'Decryption failed' error when s is no JSON text; for every other
\* JSON-serializable value v, decrypt(encrypt(v, k), k) equals v.
C39_StringInputIsRawText ==
    \A i, j \in DOMAIN ops :
        DecryptsOutputOf(j, i) =>
            IF TypeofString(ops[i].data)
            THEN /\ ops[j].result.ok = RawText(ops[i].data).json
                 /\ ops[j].result.ok =>
                        (ops[j].result.value = RawText(ops[i].data).v
                            /\ ops[j].result.value # ops[i].data)
                 /\ ~ops[j].result.ok => StartsWith(ops[j].result.message, DecryptionFailed(<<>>))
                 /\ ops[i].data = Str(<<"5">>) => ops[j].result.value = Num(5)
                 /\ ops[i].data = Str(<<"\"", "p", "\"">>) => ops[j].result.value = Str(<<"p">>)
                 /\ ops[i].data \in {Str(<<"p">>), Str(<<>>)} => ~ops[j].result.ok
            ELSE JsonSerializable(ops[i].data) =>
                     (ops[j].result.ok /\ ops[j].result.value = ops[i].data)

C39_Witness ==
    \E i, j \in DOMAIN ops :
        /\ DecryptsOutputOf(j, i)
        /\ ops[i].data = Str(<<"5">>)
        /\ ops[j].result = [ok |-> TRUE, value |-> Num(5), message |-> <<>>]

Underway(r) == pc[r] \in {"parsing", "sending", "cleanup"}
Concluded(r) == pc[r] = "done" /\ Len(delivered[r]) = 1 /\ ~inflight[r]

\* C34: every sendNotification call eventually settles and its request
\* eventually receives its response, given that the provider's send and
\* deleteApp each eventually settle: a request under way is concluded.
C34_EveryRequestConcludes == \A r \in Reqs : Underway(r) ~> Concluded(r)

C34_Witness ==
    \E r \in Reqs :
        /\ Concluded(r)
        /\ mode[r] = "http"
        /\ sends[r] # <<>> /\ deletes[r] # <<>>
        /\ outcome[r].kind # "none"

\* C35: graceful shutdown runs at most once: isShuttingDown, once true, stays
\* true, and server.close and the forced-exit timer are each started at most
\* once, however many signals and fatal errors arrive and in whatever order.
C35_ShutdownAtMostOnce ==
    /\ [](proc.closeCalls <= 1 /\ proc.forceTimers <= 1)
    /\ [][proc.isShuttingDown => proc'.isShuttingDown]_vars

C35_Witness ==
    /\ proc.events = MaxEvents
    /\ proc.fatal /\ proc.exitArg = 0
    /\ proc.closeCalls = 1 /\ proc.forceTimers = 1

\* C36: once graceful shutdown has begun the process eventually exits, after
\* server.close and the 1 s timer or through the 10 s forced-exit timer.
C36_ShutdownExits == proc.isShuttingDown ~> proc.exited

C36_Witness ==
    /\ proc.exited /\ proc.closing
    /\ ConnectionsOpen

\* C37: whenever an uncaughtException or unhandledRejection has occurred the
\* process terminates with exit code 1, never with 0, in any order relative
\* to SIGINT and SIGTERM.
C37_FatalExitsWithOne == (proc.exited /\ proc.fatal) => proc.exitCode = 1

\* C38: the process never exits while an app created by an in-flight request
\* is live: for every session live when the shutdown began the teardown has
\* been called before the process exits.
C38_NoExitWithLiveApp ==
    proc.exited => \A r \in proc.sessions : deletes[r] # <<>>

\* C40: parseRequestBody settles once under any interleaving of data, end,
\* error and timer events, and the first settling event decides: every
\* settling event leaves the promise settled as the first one asked; once the
\* size exceeds 1 MB the promise is rejected (with 'Request payload too
\* large' unless the timer or an error came first), no further chunk is
\* appended and a later end cannot make it a parsed payload; end and error
\* cancel the timer, which then never fires.
C40_BodySettlesOnce ==
    /\ [](/\ upload.promise = upload.first
          /\ (upload.calls = 0) = (upload.promise.kind = "none")
          /\ (upload.ended \/ upload.errored \/ upload.timer = "fired") =>
                 upload.promise.kind # "none"
          /\ BodyLength(upload.body) <= MaxSize
          /\ upload.size > MaxSize =>
                 /\ upload.promise.kind = "throw"
                 /\ (upload.timer # "fired" /\ ~upload.errored) => upload.promise = TooLarge
          /\ (upload.ended \/ upload.errored) => upload.timer # "armed")
    /\ [][/\ upload.promise.kind # "none" => upload'.promise = upload.promise
          /\ upload.timer = "cleared" => upload'.timer = "cleared"]_vars

C40_Witness ==
    /\ upload.size > MaxSize /\ upload.ended
    /\ ParseBody(upload.body).kind = "return"
    /\ upload.calls = 2
    /\ upload.promise = TooLarge
    /\ upload.timer = "cleared"

====
